---------------------------- MODULE Spec2Model ----------------------------
(***************************************************************************)
(* Model of the portos-ai-toolkit server core:                             *)
(*   - errorDetection.js   the Error Classifier (pure functions)           *)
(*   - providerStatus.js   the Availability & Fallback Tracker             *)
(*   - runner.js           the Run Executor                                *)
(*                                                                         *)
(* Conventions.  A nullable JavaScript value is a sequence of length at    *)
(* most one: None is null/undefined/absent, Some(v) is v.  A text is a     *)
(* sequence of phrases (a finite vocabulary of strings); a regular         *)
(* expression of the source is the set of phrases of the vocabulary it     *)
(* matches.  Time is in milliseconds.                                      *)
(***************************************************************************)
EXTENDS Integers, Sequences, FiniteSets, TLC

VARIABLES
    now,          \* Date.now()
    heap,         \* the status objects ever held by statusCache (one per load)
    statusCache,  \* index in heap of the object statusCache refers to
    disk,         \* content of the status file: None (no file) or Some(map)
    dirExists,    \* whether dirname(STATUS_PATH) exists
    calls,        \* Tracker calls (init / mark*) issued so far, with their position
    events,       \* status:changed events: how many, and the last one
    runs,         \* the runs created so far; a run's id is its index
    activeRuns,   \* the ids in the activeRuns map
    creating,     \* the createRun call in flight, if any
    lastCreate,   \* how the last createRun call ended
    hooks,        \* how often each lifecycle hook was invoked
    degraded,     \* history: per backend, whether a run's limit failure stands
    query         \* a component taken on its own: its arguments, state and result

trackerVars == <<heap, statusCache, disk, dirExists, calls, events>>
runnerVars == <<runs, activeRuns, creating, lastCreate, hooks>>

vars == <<now, query, degraded, trackerVars, runnerVars>>

---------------------------------------------------------------------------
(* Bounds of the model *)

MaxTime == 2000
MaxCalls == 3
MaxRuns == 2
MaxExecuted == 1
MaxChunks == 1
MaxExternal == 1

(* Configuration of the services, as the repository's tests configure them *)

DefaultUsageLimitWait == 1000
DefaultRateLimitWait == 500

---------------------------------------------------------------------------
(* Nullable values *)

None == <<>>
Some(v) == <<v>>
IsSome(o) == o # <<>>
Get(o) == o[1]
OrElse(o, d) == IF o = <<>> THEN d ELSE o[1]

Ids == {"a", "b", "c", "d"}

TickSteps == {1000}

---------------------------------------------------------------------------
(* errorDetection.js : the Error Classifier *)

CAT_RATE_LIMIT == "rate-limit"
CAT_USAGE_LIMIT == "usage-limit"
CAT_AUTH_ERROR == "auth-error"
CAT_MODEL_NOT_FOUND == "model-not-found"
CAT_NETWORK_ERROR == "network-error"
CAT_TIMEOUT == "timeout"
CAT_QUOTA_EXCEEDED == "quota-exceeded"
CAT_UNKNOWN == "unknown"

ERROR_CATEGORIES ==
    { CAT_RATE_LIMIT, CAT_USAGE_LIMIT, CAT_AUTH_ERROR, CAT_MODEL_NOT_FOUND,
      CAT_NETWORK_ERROR, CAT_TIMEOUT, CAT_QUOTA_EXCEEDED, CAT_UNKNOWN }

(* The vocabulary of phrases texts are made of.  Each phrase is one line. *)
Phrases ==
    { "hello",
      "Error: Billing quota exceeded",
      "API Error: 429 Too Many Requests",
      "You've hit your usage limit",
      "usage limit - rate limit exceeded",
      "Invalid API key",
      "model not found",
      "ECONNREFUSED",
      "timeout exceeded",
      "SIGTERM",
      "try again in 2 seconds",
      "fetch failed",
      "This operation was aborted",
      "hook failed" }

(* The rules, in the order of the source; `phrases` is the set of phrases  *)
(* of the vocabulary the rule's regular expression matches.                *)
ERROR_PATTERNS ==
    << [ phrases |-> {"Error: Billing quota exceeded"},
         category |-> CAT_QUOTA_EXCEEDED, requiresFallback |-> TRUE,
         actionable |-> TRUE, extractWaitTime |-> FALSE,
         suggestedFix |-> "Check billing status and add credits to the provider account" ],
       [ phrases |-> {"API Error: 429 Too Many Requests",
                      "usage limit - rate limit exceeded"},
         category |-> CAT_RATE_LIMIT, requiresFallback |-> FALSE,
         actionable |-> FALSE, extractWaitTime |-> FALSE,
         suggestedFix |-> "Wait and retry - temporary rate limiting" ],
       [ phrases |-> {"You've hit your usage limit",
                      "usage limit - rate limit exceeded"},
         category |-> CAT_USAGE_LIMIT, requiresFallback |-> TRUE,
         actionable |-> TRUE, extractWaitTime |-> TRUE,
         suggestedFix |-> "Provider usage limit reached. Using fallback provider or wait for limit reset." ],
       [ phrases |-> {"Invalid API key"},
         category |-> CAT_AUTH_ERROR, requiresFallback |-> TRUE,
         actionable |-> TRUE, extractWaitTime |-> FALSE,
         suggestedFix |-> "Check API key configuration for this provider" ],
       [ phrases |-> {"model not found"},
         category |-> CAT_MODEL_NOT_FOUND, requiresFallback |-> TRUE,
         actionable |-> TRUE, extractWaitTime |-> FALSE,
         suggestedFix |-> "Check model name and availability in provider settings" ],
       [ phrases |-> {"ECONNREFUSED", "timeout exceeded"},
         category |-> CAT_NETWORK_ERROR, requiresFallback |-> FALSE,
         actionable |-> FALSE, extractWaitTime |-> FALSE,
         suggestedFix |-> "Check network connectivity and provider endpoint URL" ],
       [ phrases |-> {"timeout exceeded", "SIGTERM"},
         category |-> CAT_TIMEOUT, requiresFallback |-> FALSE,
         actionable |-> FALSE, extractWaitTime |-> FALSE,
         suggestedFix |-> "Consider increasing timeout or reducing prompt complexity" ] >>

(* pattern.test(text) *)
PatternTest(rule, text) == \E k \in 1..Len(text) : text[k] \in rule.phrases

(* A wait time string is a sequence of <<number, unit>> components.        *)
WaitPhrase(phrase) ==
    IF phrase = "try again in 2 seconds"
    THEN Some(<< <<2, "second">> >>)
    ELSE None

(* extractWaitTime(text): the time string of the first phrase that has one *)
extractWaitTime(text) ==
    IF \E k \in 1..Len(text) : IsSome(WaitPhrase(text[k]))
    THEN LET k == CHOOSE i \in 1..Len(text) :
                    /\ IsSome(WaitPhrase(text[i]))
                    /\ \A j \in 1..(i - 1) : ~IsSome(WaitPhrase(text[j]))
         IN  WaitPhrase(text[k])
    ELSE None

(* What /Error:\s*(.+?)(?:\n|$)/i captures in a phrase *)
ErrorCapture(phrase) ==
    CASE phrase = "Error: Billing quota exceeded" -> Some("Billing quota exceeded")
      [] phrase = "API Error: 429 Too Many Requests" -> Some("429 Too Many Requests")
      [] OTHER -> None

(* extractErrorMessage(text): '' for the empty text, the first capture of  *)
(* the message patterns, else the first non-blank line.                    *)
extractErrorMessage(text) ==
    IF text = <<>> THEN ""
    ELSE IF \E k \in 1..Len(text) : IsSome(ErrorCapture(text[k]))
         THEN LET k == CHOOSE i \in 1..Len(text) :
                         /\ IsSome(ErrorCapture(text[i]))
                         /\ \A j \in 1..(i - 1) : ~IsSome(ErrorCapture(text[j]))
              IN  Get(ErrorCapture(text[k]))
         ELSE text[1]

NoError ==
    [ hasError |-> FALSE, category |-> None, message |-> None, waitTime |-> None,
      requiresFallback |-> FALSE, actionable |-> FALSE, suggestedFix |-> None ]

(* A result that asks for a fallback whatever the rule *)
RuleResultAlwaysFallback(rule, text) ==
    [ hasError |-> TRUE, category |-> Some(rule.category),
      message |-> Some(extractErrorMessage(text)),
      waitTime |-> IF rule.extractWaitTime THEN extractWaitTime(text) ELSE None,
      requiresFallback |-> TRUE, actionable |-> rule.actionable,
      suggestedFix |-> Some(rule.suggestedFix) ]

(* A result with the wait time extracted whatever the rule *)
RuleResultAlwaysExtracting(rule, text) ==
    [ hasError |-> TRUE, category |-> Some(rule.category),
      message |-> Some(extractErrorMessage(text)),
      waitTime |-> extractWaitTime(text),
      requiresFallback |-> rule.requiresFallback, actionable |-> rule.actionable,
      suggestedFix |-> Some(rule.suggestedFix) ]

(* The result of analyzeError for the first rule that matches *)
RuleResult(rule, text) ==
    [ hasError |-> TRUE, category |-> Some(rule.category),
      message |-> Some(extractErrorMessage(text)),
      waitTime |-> IF rule.extractWaitTime THEN extractWaitTime(text) ELSE None,
      requiresFallback |-> rule.requiresFallback, actionable |-> rule.actionable,
      suggestedFix |-> Some(rule.suggestedFix) ]

(* An analyzeError that returns the outcome of the last matching rule *)
analyzeErrorLastMatch(text, exitCode) ==
    IF text = <<>> /\ exitCode = Some(0) THEN NoError
    ELSE IF \E i \in 1..Len(ERROR_PATTERNS) : PatternTest(ERROR_PATTERNS[i], text)
    THEN LET i == CHOOSE n \in 1..Len(ERROR_PATTERNS) :
                    /\ PatternTest(ERROR_PATTERNS[n], text)
                    /\ \A m \in (n + 1)..Len(ERROR_PATTERNS) :
                          ~PatternTest(ERROR_PATTERNS[m], text)
         IN  RuleResult(ERROR_PATTERNS[i], text)
    ELSE IF exitCode # Some(0) /\ exitCode # None
    THEN [ hasError |-> TRUE, category |-> Some(CAT_UNKNOWN),
           message |-> IF extractErrorMessage(text) # ""
                       THEN Some(extractErrorMessage(text))
                       ELSE Some("Process exited with code"),
           waitTime |-> None, requiresFallback |-> FALSE, actionable |-> FALSE,
           suggestedFix |-> None ]
    ELSE NoError

(* An analyzeError for which a missing exit code is a failure too *)
analyzeErrorNullFails(text, exitCode) ==
    IF text = <<>> /\ exitCode = Some(0) THEN NoError
    ELSE IF \E i \in 1..Len(ERROR_PATTERNS) : PatternTest(ERROR_PATTERNS[i], text)
    THEN LET i == CHOOSE n \in 1..Len(ERROR_PATTERNS) :
                    /\ PatternTest(ERROR_PATTERNS[n], text)
                    /\ \A m \in 1..(n - 1) : ~PatternTest(ERROR_PATTERNS[m], text)
         IN  RuleResult(ERROR_PATTERNS[i], text)
    ELSE IF exitCode # Some(0)
    THEN [ hasError |-> TRUE, category |-> Some(CAT_UNKNOWN),
           message |-> IF extractErrorMessage(text) # ""
                       THEN Some(extractErrorMessage(text))
                       ELSE Some("Process exited with code"),
           waitTime |-> None, requiresFallback |-> FALSE, actionable |-> FALSE,
           suggestedFix |-> None ]
    ELSE NoError

(* analyzeError(errorText, exitCode = null): text is the sequence of       *)
(* phrases (<<>> is '' or null), exitCode is None or Some(code).           *)
analyzeError(text, exitCode) ==
    IF text = <<>> /\ exitCode = Some(0) THEN NoError
    ELSE IF \E i \in 1..Len(ERROR_PATTERNS) : PatternTest(ERROR_PATTERNS[i], text)
    THEN LET i == CHOOSE n \in 1..Len(ERROR_PATTERNS) :
                    /\ PatternTest(ERROR_PATTERNS[n], text)
                    /\ \A m \in 1..(n - 1) : ~PatternTest(ERROR_PATTERNS[m], text)
         IN  RuleResult(ERROR_PATTERNS[i], text)
    ELSE IF exitCode # Some(0) /\ exitCode # None
    THEN [ hasError |-> TRUE, category |-> Some(CAT_UNKNOWN),
           message |-> IF extractErrorMessage(text) # ""
                       THEN Some(extractErrorMessage(text))
                       ELSE Some("Process exited with code"),
           waitTime |-> None, requiresFallback |-> FALSE, actionable |-> FALSE,
           suggestedFix |-> None ]
    ELSE NoError

isRateLimitStatus(status) == status = 429
isAuthErrorStatus(status) == status = 401 \/ status = 403

(* An analyzeHttpError that inspects the body before the status code *)
analyzeHttpErrorBodyFirst(status, body) ==
    IF status >= 200 /\ status < 300 THEN NoError
    ELSE IF body # <<>> THEN analyzeError(body, None)
    ELSE IF status = 429
    THEN [ hasError |-> TRUE, category |-> Some(CAT_RATE_LIMIT),
           message |-> Some("Rate limit exceeded (429)"),
           waitTime |-> extractWaitTime(body),
           requiresFallback |-> FALSE, actionable |-> FALSE,
           suggestedFix |-> Some("Wait and retry - temporary rate limiting") ]
    ELSE IF status = 401 \/ status = 403
    THEN [ hasError |-> TRUE, category |-> Some(CAT_AUTH_ERROR),
           message |-> Some("Authentication failed"),
           waitTime |-> None, requiresFallback |-> TRUE, actionable |-> TRUE,
           suggestedFix |-> Some("Check API key configuration for this provider") ]
    ELSE [ hasError |-> TRUE, category |-> Some(CAT_UNKNOWN),
           message |-> Some("HTTP status"),
           waitTime |-> None, requiresFallback |-> FALSE, actionable |-> FALSE,
           suggestedFix |-> None ]

(* analyzeHttpError({status, statusText, body}); body is a text *)
analyzeHttpError(status, body) ==
    IF status >= 200 /\ status < 300 THEN NoError
    ELSE IF isRateLimitStatus(status)
    THEN [ hasError |-> TRUE, category |-> Some(CAT_RATE_LIMIT),
           message |-> Some("Rate limit exceeded (429)"),
           waitTime |-> extractWaitTime(body),
           requiresFallback |-> FALSE, actionable |-> FALSE,
           suggestedFix |-> Some("Wait and retry - temporary rate limiting") ]
    ELSE IF isAuthErrorStatus(status)
    THEN [ hasError |-> TRUE, category |-> Some(CAT_AUTH_ERROR),
           message |-> Some("Authentication failed"),
           waitTime |-> None, requiresFallback |-> TRUE, actionable |-> TRUE,
           suggestedFix |-> Some("Check API key configuration for this provider") ]
    ELSE IF body # <<>> THEN analyzeError(body, None)
    ELSE [ hasError |-> TRUE, category |-> Some(CAT_UNKNOWN),
           message |-> Some("HTTP status"),
           waitTime |-> None, requiresFallback |-> FALSE, actionable |-> FALSE,
           suggestedFix |-> None ]

---------------------------------------------------------------------------
(* providerStatus.js : the Availability & Fallback Tracker *)

(* statusCache.providers of an empty store: no id has a record *)
EmptyMap == [i \in Ids |-> None]

DefaultFallbackPriority == <<"d", "c", "a", "b">>

UnitMs(unit) ==
    CASE unit = "day" -> 24 * 60 * 60 * 1000
      [] unit = "hour" -> 60 * 60 * 1000
      [] unit = "minute" -> 60 * 1000
      [] unit = "second" -> 1000

(* What /(\d+)\s*<unit>/i finds in a time string: the number of the first  *)
(* component of that unit, 0 when there is none.                           *)
UnitMatch(w, unit) ==
    IF \E k \in 1..Len(w) : w[k][2] = unit
    THEN LET k == CHOOSE i \in 1..Len(w) :
                    /\ w[i][2] = unit
                    /\ \A j \in 1..(i - 1) : w[j][2] # unit
         IN  w[k][1] * UnitMs(unit)
    ELSE 0

(* parseWaitTime(waitTimeStr): None for a null string and for a total of 0 *)
parseWaitTime(waitTime) ==
    IF waitTime = None THEN None
    ELSE LET w == Get(waitTime)
             totalMs == UnitMatch(w, "day") + UnitMatch(w, "hour")
                        + UnitMatch(w, "minute") + UnitMatch(w, "second")
         IN  IF totalMs = 0 THEN None ELSE Some(totalMs)

(* A formatTimeRemaining whose minutes are those of the whole duration *)
formatTimeRemainingTotalMinutes(ms) ==
    IF ms <= 0 THEN [ text |-> "any moment", days |-> 0, hours |-> 0, minutes |-> 0 ]
    ELSE LET days == ms \div (24 * 60 * 60 * 1000)
             hours == (ms % (24 * 60 * 60 * 1000)) \div (60 * 60 * 1000)
             minutes == ms \div (60 * 1000)
         IN  IF days = 0 /\ hours = 0 /\ minutes = 0
             THEN [ text |-> "< 1m", days |-> 0, hours |-> 0, minutes |-> 0 ]
             ELSE [ text |-> "parts", days |-> days, hours |-> hours,
                    minutes |-> minutes ]

(* formatTimeRemaining(ms): 'any moment', '< 1m', or the non-zero parts of *)
(* `${days}d ${hours}h ${minutes}m`                                        *)
formatTimeRemaining(ms) ==
    IF ms <= 0 THEN [ text |-> "any moment", days |-> 0, hours |-> 0, minutes |-> 0 ]
    ELSE LET days == ms \div (24 * 60 * 60 * 1000)
             hours == (ms % (24 * 60 * 60 * 1000)) \div (60 * 60 * 1000)
             minutes == (ms % (60 * 60 * 1000)) \div (60 * 1000)
         IN  IF days = 0 /\ hours = 0 /\ minutes = 0
             THEN [ text |-> "< 1m", days |-> 0, hours |-> 0, minutes |-> 0 ]
             ELSE [ text |-> "parts", days |-> days, hours |-> hours,
                    minutes |-> minutes ]

(* The record init() writes for a recovered provider, and the one          *)
(* getStatus() synthesizes for an unknown id: no failureCount field.       *)
AvailableRecord(t) ==
    [ available |-> TRUE, reason |-> "ok", message |-> "Provider available",
      waitTime |-> None, unavailableSince |-> None, estimatedRecovery |-> None,
      failureCount |-> None, lastChecked |-> t ]

(* (previousStatus?.failureCount || 0) + 1 *)
NextFailureCount(previous) ==
    (IF previous = None THEN 0 ELSE OrElse(Get(previous).failureCount, 0)) + 1

(* The record markUsageLimit(providerId, errorInfo) stores *)
UsageLimitRecord(previous, errorInfo, t) ==
    [ available |-> FALSE, reason |-> "usage-limit",
      message |-> IF OrElse(errorInfo.message, "") # ""
                  THEN Get(errorInfo.message) ELSE "Usage limit exceeded",
      waitTime |-> errorInfo.waitTime,
      unavailableSince |-> Some(t),
      estimatedRecovery |->
          Some(t + OrElse(parseWaitTime(errorInfo.waitTime), DefaultUsageLimitWait)),
      failureCount |-> Some(NextFailureCount(previous)),
      lastChecked |-> t ]

(* A markRateLimited that does not bring an estimated recovery forward *)
RateLimitRecordKeepingRecovery(previous, t) ==
    [ available |-> FALSE, reason |-> "rate-limit",
      message |-> "Rate limit exceeded - temporary",
      waitTime |-> None,
      unavailableSince |-> Some(t),
      estimatedRecovery |->
          IF /\ previous # None
             /\ Get(previous).estimatedRecovery # None
             /\ Get(Get(previous).estimatedRecovery) > t + DefaultRateLimitWait
          THEN Get(previous).estimatedRecovery
          ELSE Some(t + DefaultRateLimitWait),
      failureCount |-> Some(NextFailureCount(previous)),
      lastChecked |-> t ]

(* The record markRateLimited(providerId) stores *)
RateLimitRecord(previous, t) ==
    [ available |-> FALSE, reason |-> "rate-limit",
      message |-> "Rate limit exceeded - temporary",
      waitTime |-> None,
      unavailableSince |-> Some(t),
      estimatedRecovery |-> Some(t + DefaultRateLimitWait),
      failureCount |-> Some(NextFailureCount(previous)),
      lastChecked |-> t ]

(* markAvailable that leaves the recovery estimate in place *)
MarkAvailableKeepingRecovery(t) ==
    [ available |-> TRUE, reason |-> "ok", message |-> "Provider available",
      waitTime |-> None, unavailableSince |-> None, estimatedRecovery |-> Some(t),
      failureCount |-> Some(0), lastChecked |-> t ]

(* The record markAvailable(providerId) stores *)
MarkAvailableRecord(t) ==
    [ available |-> TRUE, reason |-> "ok", message |-> "Provider available",
      waitTime |-> None, unavailableSince |-> None, estimatedRecovery |-> None,
      failureCount |-> Some(0), lastChecked |-> t ]

(* A sweep that also recovers an entry whose estimate is the present *)
SweepEntryAtRecovery(entry, t) ==
    IF entry # None /\ IsSome(Get(entry).estimatedRecovery)
                    /\ t >= Get(Get(entry).estimatedRecovery)
    THEN Some(AvailableRecord(t))
    ELSE entry

(* The sweep of init() over a loaded map at time t *)
SweepEntry(entry, t) ==
    IF entry # None /\ IsSome(Get(entry).estimatedRecovery)
                    /\ t > Get(Get(entry).estimatedRecovery)
    THEN Some(AvailableRecord(t))
    ELSE entry

Sweep(map, t) == [i \in Ids |-> SweepEntry(map[i], t)]

(* getStatus / isAvailable / getTimeUntilRecovery on a providers map *)
StatusIn(map, id, t) == IF map[id] = None THEN AvailableRecord(t) ELSE Get(map[id])

AvailableIn(map, id) == IF map[id] = None THEN TRUE ELSE Get(map[id]).available

(* getTimeUntilRecovery measuring from the recovery time to now *)
TimeSinceRecoveryIn(map, id, t) ==
    LET status == StatusIn(map, id, t)
    IN  IF status.available \/ status.estimatedRecovery = None THEN None
        ELSE Some(formatTimeRemaining(t - Get(status.estimatedRecovery)))

TimeUntilRecoveryIn(map, id, t) ==
    LET status == StatusIn(map, id, t)
    IN  IF status.available \/ status.estimatedRecovery = None THEN None
        ELSE Some(formatTimeRemaining(Get(status.estimatedRecovery) - t))

(* A candidate accepted on its enabled flag alone *)
AcceptableIgnoringStatus(map, providers, id) ==
    /\ providers[id] # None
    /\ Get(providers[id]).enabled

(* A candidate of getFallbackProvider is accepted when it is configured,   *)
(* enabled and available: candidate?.enabled && this.isAvailable(id)       *)
Acceptable(map, providers, id) ==
    /\ providers[id] # None
    /\ Get(providers[id]).enabled
    /\ AvailableIn(map, id)

(* The system tier taking the last accepted id of the priority list *)
LastSystemFallback(map, primaryProviderId, providers) ==
    LET ok(k) == /\ DefaultFallbackPriority[k] # primaryProviderId
                 /\ providers[DefaultFallbackPriority[k]] # None
                 /\ Get(providers[DefaultFallbackPriority[k]]).enabled
                 /\ (map[DefaultFallbackPriority[k]] = None
                        \/ Get(map[DefaultFallbackPriority[k]]).available)
    IN  IF \E k \in 1..Len(DefaultFallbackPriority) : ok(k)
        THEN LET k == CHOOSE i \in 1..Len(DefaultFallbackPriority) :
                        ok(i) /\ \A j \in (i + 1)..Len(DefaultFallbackPriority) : ~ok(j)
             IN  Some([ provider |-> Get(providers[DefaultFallbackPriority[k]]),
                        source |-> "system" ])
        ELSE None

(* The first id of the priority list, other than the primary, accepted *)
SystemFallback(map, primaryProviderId, providers) ==
    LET ok(k) == /\ DefaultFallbackPriority[k] # primaryProviderId
                 /\ Acceptable(map, providers, DefaultFallbackPriority[k])
    IN  IF \E k \in 1..Len(DefaultFallbackPriority) : ok(k)
        THEN LET k == CHOOSE i \in 1..Len(DefaultFallbackPriority) :
                        ok(i) /\ \A j \in 1..(i - 1) : ~ok(j)
             IN  Some([ provider |-> Get(providers[DefaultFallbackPriority[k]]),
                        source |-> "system" ])
        ELSE None

(* getFallbackProvider(primaryProviderId, providers, taskFallbackId) on a  *)
(* providers map `map` of the status cache                                 *)
FallbackIn(map, primaryProviderId, providers, taskFallbackId) ==
    IF /\ taskFallbackId # None
       /\ Get(taskFallbackId) # primaryProviderId
       /\ Acceptable(map, providers, Get(taskFallbackId))
    THEN Some([ provider |-> Get(providers[Get(taskFallbackId)]), source |-> "task" ])
    ELSE IF /\ providers[primaryProviderId] # None
            /\ Get(providers[primaryProviderId]).fallbackProvider # None
            /\ Acceptable(map, providers,
                          Get(Get(providers[primaryProviderId]).fallbackProvider))
    THEN Some([ provider |->
                    Get(providers[Get(Get(providers[primaryProviderId]).fallbackProvider)]),
                source |-> "provider" ])
    ELSE SystemFallback(map, primaryProviderId, providers)

(* getTimeUntilRecovery that never has an estimate *)
UnknownRecovery(id) == None

(* The queries on the live state *)
Cache == heap[statusCache]
getStatus(id) == StatusIn(Cache, id, now)
isAvailable(id) == AvailableIn(Cache, id)
getTimeUntilRecovery(id) == TimeUntilRecoveryIn(Cache, id, now)
getFallbackProvider(primaryProviderId, providers, taskFallbackId) ==
    FallbackIn(Cache, primaryProviderId, providers, taskFallbackId)

---------------------------------------------------------------------------
(* The Tracker's asynchronous calls.  Each call is a record in `calls`;    *)
(* its phase is the await it is suspended at:                              *)
(*   "nofile"   init: existsSync(STATUS_PATH) was false; loadStatus()      *)
(*              returned at once and the continuation is a pending         *)
(*              microtask                                                  *)
(*   "reading"  init: readFile(STATUS_PATH) in flight                      *)
(*   "loaded"   init: readFile settled, the continuation not yet run       *)
(*   "mkdir"    saveStatus: mkdir(dir) in flight                           *)
(*   "write"    saveStatus: writeFile of the snapshot `snap` in flight     *)
(*   "resume"   saveStatus: the file is written, the continuation not run  *)
(*   "done" / "failed"   the call returned / threw                         *)
(* `obj` is the status object the call holds a reference to (0: none).     *)

Call(op, id, obj, phase, snap) ==
    [ op |-> op, id |-> id, obj |-> obj, phase |-> phase, snap |-> snap ]

Finished(phase) == Call("", "", 0, phase, EmptyMap)

(* The status objects still reachable: the one statusCache refers to and   *)
(* those held by calls in flight.  Unreachable ones are garbage.           *)
Referenced(sc, cs) == {sc} \cup ({cs[k].obj : k \in 1..Len(cs)} \ {0})

Collect(h, sc, cs) ==
    LET top == CHOOSE n \in Referenced(sc, cs) : \A m \in Referenced(sc, cs) : m <= n
    IN  [i \in 1..top |-> IF i \in Referenced(sc, cs) THEN h[i] ELSE EmptyMap]

(* The index a newly created status object gets *)
Alloc(h, sc, cs) ==
    CHOOSE n \in 1..(Len(h) + 1) :
        /\ n \notin Referenced(sc, cs)
        /\ \A m \in 1..(n - 1) : m \in Referenced(sc, cs)

(* saveStatus(status) up to its first await, on the heap h *)
SaveStart(op, id, obj, h) ==
    IF dirExists THEN Call(op, id, obj, "write", h[obj])
                 ELSE Call(op, id, obj, "mkdir", EmptyMap)

EventType(op) ==
    CASE op = "markUsageLimit" -> "usage-limit"
      [] op = "markRateLimited" -> "rate-limit"
      [] op = "markAvailable" -> "recovered"

(* The synchronous part of a mark call: the record replaces the entry of   *)
(* the object statusCache refers to, and saveStatus(statusCache) starts.   *)
MarkStart(op, id, rec) ==
    /\ heap' = [heap EXCEPT ![statusCache][id] = Some(rec)]
    /\ calls' = Append(calls, SaveStart(op, id, statusCache, heap'))
    /\ UNCHANGED <<statusCache, disk, dirExists, events>>

ErrorInfos ==
    { [ message |-> None, waitTime |-> None ],
      [ message |-> Some("Limit hit"), waitTime |-> Some(<< <<2, "second">> >>) ] }

markUsageLimit(id, errorInfo) ==
    MarkStart("markUsageLimit", id, UsageLimitRecord(Cache[id], errorInfo, now))

markRateLimited(id) ==
    MarkStart("markRateLimited", id, RateLimitRecord(Cache[id], now))

markAvailable(id) ==
    MarkStart("markAvailable", id, MarkAvailableRecord(now))

(* saveStatus: mkdir settled; lastUpdated is set and the object serialized *)
MkdirDone(c) ==
    /\ calls[c].phase = "mkdir"
    /\ dirExists' = TRUE
    /\ calls' = [calls EXCEPT ![c] = Call(@.op, @.id, @.obj, "write", heap[@.obj])]
    /\ UNCHANGED <<now, query, heap, statusCache, disk, events>>

(* saveStatus: writeFile replaced the file by the serialized snapshot *)
SaveWrite(c) ==
    /\ calls[c].phase = "write"
    /\ disk' = Some(calls[c].snap)
    /\ calls' = [calls EXCEPT ![c] = Call(@.op, @.id, @.obj, "resume", EmptyMap)]
    /\ UNCHANGED <<now, query, heap, statusCache, dirExists, events>>

(* A failing save that takes the new record out of the cache again *)
SaveFailRollingBack(c) ==
    /\ calls[c].phase \in {"mkdir", "write"}
    /\ calls' = [calls EXCEPT ![c] = Finished("failed")]
    /\ heap' = Collect(IF calls[c].op = "init" THEN heap
                       ELSE [heap EXCEPT ![calls[c].obj][calls[c].id] = None],
                       statusCache, calls')
    /\ UNCHANGED <<now, query, statusCache, disk, dirExists, events>>

(* saveStatus: mkdir or writeFile rejected; the call throws *)
SaveFail(c) ==
    /\ calls[c].phase \in {"mkdir", "write"}
    /\ calls' = [calls EXCEPT ![c] = Finished("failed")]
    /\ heap' = Collect(heap, statusCache, calls')
    /\ UNCHANGED <<now, query, statusCache, disk, dirExists, events>>

(* saveStatus returns: statusCache = status; a mark call then emits        *)
(* status:changed with the entry the cache now holds; init emits nothing.  *)
SaveResume(c) ==
    /\ calls[c].phase = "resume"
    /\ statusCache' = calls[c].obj
    /\ events' = IF calls[c].op = "init" THEN events
                 ELSE [ n |-> events.n + 1,
                        last |-> Some([ providerId |-> calls[c].id,
                                        status |-> heap[calls[c].obj][calls[c].id],
                                        type |-> EventType(calls[c].op) ]) ]
    /\ calls' = [calls EXCEPT ![c] = Finished("done")]
    /\ heap' = Collect(heap, statusCache', calls')
    /\ UNCHANGED <<now, query, disk, dirExists>>

(* init() is called: loadStatus() tests existsSync(STATUS_PATH) *)
init ==
    /\ calls' = Append(calls,
                  IF disk = None THEN Call("init", "", 0, "nofile", EmptyMap)
                                 ELSE Call("init", "", 0, "reading", EmptyMap))
    /\ UNCHANGED <<now, query, heap, statusCache, disk, dirExists, events>>

(* readFile settled with the current content of the file *)
InitRead(c) ==
    /\ calls[c].phase = "reading"
    /\ calls' = [calls EXCEPT ![c] =
                    Call("init", "", 0, "loaded", IF disk = None THEN EmptyMap ELSE Get(disk))]
    /\ UNCHANGED <<now, query, heap, statusCache, disk, dirExists, events>>

(* readFile or JSON.parse threw: .catch gives the empty store *)
InitReadFail(c) ==
    /\ calls[c].phase = "reading"
    /\ calls' = [calls EXCEPT ![c] = Call("init", "", 0, "loaded", EmptyMap)]
    /\ UNCHANGED <<now, query, heap, statusCache, disk, dirExists, events>>

(* The continuation of init() once loadStatus() settled: statusCache =     *)
(* the loaded object, the sweep, and saveStatus if anything changed.       *)
InitResume(c) ==
    LET loaded == calls[c].snap
        obj == Alloc(heap, statusCache, calls)
        h == [i \in 1..(IF obj > Len(heap) THEN obj ELSE Len(heap)) |->
                 IF i = obj THEN Sweep(loaded, now) ELSE heap[i]]
    IN  /\ calls[c].phase \in {"nofile", "loaded"}
        /\ statusCache' = obj
        /\ calls' = [calls EXCEPT ![c] =
                        IF Sweep(loaded, now) # loaded
                        THEN SaveStart("init", "", obj, h)
                        ELSE Finished("done")]
        /\ heap' = Collect(h, statusCache', calls')
        /\ UNCHANGED <<now, query, disk, dirExists, events>>

(* A continuation that waits for no event runs before any event is        *)
(* handled: while it is pending only the code that made the call runs on,  *)
(* and it can make further calls.                                          *)
MicrotaskPending == \E c \in 1..Len(calls) : calls[c].phase = "nofile"

Tick ==
    /\ ~MicrotaskPending
    /\ \E d \in TickSteps : now + d <= MaxTime /\ now' = now + d
    /\ UNCHANGED <<query, degraded, trackerVars, runnerVars>>

---------------------------------------------------------------------------
(* The lifecycle hooks of the runner (config.hooks), counted *)
NoHooks ==
    [ onRunCreated |-> 0, onRunStarted |-> 0, onRunCompleted |-> 0,
      onRunFailed |-> 0, onProviderError |-> 0 ]

(* History of the limit failures of runs, per backend:                     *)
(*   0  nothing stands                                                     *)
(*   1  a run on the backend failed with usage-limit or rate-limit and its *)
(*      handler told the Tracker; since then markAvailable was not called  *)
(*      for the backend and init was not called                            *)
(*   2  as 1, and the run's terminal record is written, and since then no  *)
(*      step of an init call ran                                           *)
NotDegraded == [i \in Ids |-> 0]

Notified(d, id) == [d EXCEPT ![id] = IF @ = 0 THEN 1 ELSE @]

Terminated(d, id) == [d EXCEPT ![id] = IF @ = 1 THEN 2 ELSE @]

SinceInitStep(d) == [i \in Ids |-> IF d[i] = 2 THEN 0 ELSE d[i]]

---------------------------------------------------------------------------
(* The Tracker on its own: any sequence of init and mark calls, on any     *)
(* ids, with every interleaving of their file operations.                  *)

TrackerIds == {"a", "b"}

TrackerInit ==
    /\ now = 0
    /\ heap = << EmptyMap >>
    /\ statusCache = 1
    /\ disk = None
    /\ dirExists \in BOOLEAN
    /\ calls = <<>>
    /\ events = [ n |-> 0, last |-> None ]
    /\ runs = <<>>
    /\ activeRuns = {}
    /\ creating = None
    /\ lastCreate = None
    /\ hooks = NoHooks
    /\ degraded = NotDegraded
    /\ query = None

TrackerCall ==
    /\ Len(calls) < MaxCalls
    /\ \/ init /\ degraded' = NotDegraded
       \/ \E id \in TrackerIds, errorInfo \in ErrorInfos :
             markUsageLimit(id, errorInfo) /\ UNCHANGED degraded
       \/ \E id \in TrackerIds : markRateLimited(id) /\ UNCHANGED degraded
       \/ \E id \in TrackerIds :
             markAvailable(id) /\ degraded' = [degraded EXCEPT ![id] = 0]
    /\ UNCHANGED <<now, query, runnerVars>>

(* The file operations of the calls in flight settle, in any order *)
TrackerProgress ==
    /\ \E c \in 1..Len(calls) :
        /\ MicrotaskPending => calls[c].phase = "nofile"
        /\ \/ InitRead(c)
           \/ InitReadFail(c)
           \/ InitResume(c)
           \/ MkdirDone(c)
           \/ SaveWrite(c)
           \/ SaveFail(c)
           \/ SaveResume(c)
        /\ degraded' = IF calls[c].op = "init" THEN SinceInitStep(degraded)
                       ELSE degraded
    /\ UNCHANGED runnerVars

TrackerNext == TrackerCall \/ TrackerProgress \/ Tick

TrackerSpec == TrackerInit /\ [][TrackerNext]_vars

---------------------------------------------------------------------------
(* runner.js : the Run Executor *)

(* The backend configuration the provider service returns: "a" is a CLI    *)
(* backend whose configured fallback is "b", "b" an API backend, "c" is    *)
(* disabled and "d" is not configured.                                     *)
Provider(id, type, enabled, fallbackProvider) ==
    [ id |-> id, type |-> type, enabled |-> enabled,
      fallbackProvider |-> fallbackProvider ]

Providers ==
    [ i \in Ids |->
        CASE i = "a" -> Some(Provider("a", "cli", TRUE, Some("b")))
          [] i = "b" -> Some(Provider("b", "api", TRUE, None))
          [] i = "c" -> Some(Provider("c", "cli", FALSE, None))
          [] OTHER -> None ]

(* Metadata that names the requested backend instead of the effective one *)
InitialMetadataNamingRequested(runId, effectiveProviderId, usedFallback, providerId) ==
    [ id |-> runId,
      providerId |-> providerId,
      originalProviderId |-> IF usedFallback THEN Some(providerId) ELSE None,
      usedFallback |-> usedFallback,
      startTime |-> now,
      endTime |-> None, duration |-> None, exitCode |-> None, success |-> None,
      error |-> None,
      errorCategory |-> None, errorAnalysis |-> None, outputSize |-> 0,
      hadReasoning |-> None, usedReasoningAsFallback |-> None ]

(* The metadata createRun writes to metadata.json *)
InitialMetadata(runId, effectiveProviderId, usedFallback, providerId) ==
    [ id |-> runId,
      providerId |-> effectiveProviderId,
      originalProviderId |-> IF usedFallback THEN Some(providerId) ELSE None,
      usedFallback |-> usedFallback,
      startTime |-> now,
      endTime |-> None, duration |-> None, exitCode |-> None, success |-> None,
      error |-> None,
      errorCategory |-> None, errorAnalysis |-> None, outputSize |-> 0,
      hadReasoning |-> None, usedReasoningAsFallback |-> None ]

(* A run: what createRun was asked (requested), the metadata.json on disk  *)
(* (meta), and the state of its executeCliRun / executeApiRun call:        *)
(*   pc       "created", "running" (process alive), "fetching", "streaming"*)
(*            "output" (writeFile(outputPath) in flight), "analyze",       *)
(*            "mark" (handleProviderError awaited), "write"                *)
(*            (writeFile(metadataPath) in flight), "done", "threw"         *)
(*   path     which handler finalizes: "close", "http-error", "ok", "catch"*)
(*   local    the metadata object the handler is building                  *)
(*   killed   childProcess.killed / controller.signal.aborted              *)
(*   timer    the timeout is armed                                         *)
(*   code     the exit code of the close event / the HTTP status           *)
(*   text     what is classified: the response body or the error message   *)
(*   call     the mark call handleProviderError awaited (0: none)          *)
(*   startTime  the handler's own startTime = Date.now()                   *)
(*   writes, completes, datas   how often the terminal metadata was        *)
(*            written, onComplete was called, onData was called            *)
(*   afterLimit  history: createRun was called while the requested backend *)
(*            was at level 2 of `degraded`                                 *)
(*   stopped, refused   a stopRun(runId) call returned true / false        *)
(*   content  the delta.content texts delivered to onData                  *)
(*   stored   the content of output.txt                                    *)
NewRun(providerId, afterLimit, metadata) ==
    [ requested |-> providerId, afterLimit |-> afterLimit,
      meta |-> metadata, local |-> metadata, startTime |-> 0,
      kind |-> "", pc |-> "created", path |-> "",
      output |-> <<>>, reasoning |-> <<>>, killed |-> FALSE, timer |-> FALSE,
      code |-> None, text |-> <<>>, call |-> 0,
      writes |-> 0, completes |-> 0, datas |-> 0, stopped |-> FALSE,
      refused |-> FALSE, content |-> <<>>, stored |-> <<>> ]

RunIds == 1..Len(runs)

(* The runs executeCliRun / executeApiRun was called for *)
Executed == {r \in RunIds : runs[r].pc # "created"}

CreateError(message, reason, recovery) ==
    Some([ ok |-> FALSE, message |-> message, reason |-> reason,
           recovery |-> recovery, runId |-> 0 ])

CreateOk(runId) ==
    Some([ ok |-> TRUE, message |-> "", reason |-> "", recovery |-> None,
           runId |-> runId ])

(* createRun up to its first await: the availability check *)
createRun(providerId, fallbackProviderId) ==
    /\ creating = None
    /\ Len(runs) < MaxRuns
    /\ creating' = Some([ providerId |-> providerId,
                          fallbackProviderId |-> fallbackProviderId,
                          unavailable |-> ~isAvailable(providerId),
                          afterLimit |-> degraded[providerId] = 2,
                          fallback |-> None,
                          effectiveProviderId |-> providerId,
                          usedFallback |-> FALSE,
                          phase |-> IF isAvailable(providerId)
                                    THEN "getProviderById" ELSE "getAllProviders" ])
    /\ UNCHANGED <<now, query, degraded, trackerVars, runs, activeRuns, lastCreate, hooks>>

(* createRun after getAllProviders(): the fallback is resolved, or the     *)
(* call throws "unavailable ... and no fallback is available"              *)
CreateRunFallback ==
    /\ creating # None
    /\ Get(creating).phase = "getAllProviders"
    /\ LET c == Get(creating)
           fallback == getFallbackProvider(c.providerId, Providers, c.fallbackProviderId)
       IN  IF fallback # None
           THEN /\ creating' = Some([c EXCEPT !.effectiveProviderId = Get(fallback).provider.id,
                                              !.usedFallback = TRUE,
                                              !.fallback = fallback,
                                              !.phase = "getProviderById"])
                /\ UNCHANGED lastCreate
           ELSE /\ creating' = None
                /\ lastCreate' = CreateError("unavailable and no fallback is available",
                                             getStatus(c.providerId).reason,
                                             getTimeUntilRecovery(c.providerId))
    /\ UNCHANGED <<now, query, degraded, trackerVars, runs, activeRuns, hooks>>

(* createRun after getProviderById(effectiveProviderId): validation, then  *)
(* the run id, the run directory with its three files, and onRunCreated    *)
CreateRunFinish ==
    /\ creating # None
    /\ Get(creating).phase = "getProviderById"
    /\ LET c == Get(creating)
           provider == Providers[c.effectiveProviderId]
           runId == Len(runs) + 1
       IN  IF provider = None
           THEN /\ lastCreate' = CreateError("Provider not found", "", None)
                /\ UNCHANGED <<runs, hooks>>
           ELSE IF ~Get(provider).enabled
           THEN /\ lastCreate' = CreateError("Provider is disabled", "", None)
                /\ UNCHANGED <<runs, hooks>>
           ELSE /\ runs' = Append(runs,
                             NewRun(c.providerId, c.afterLimit,
                                    InitialMetadata(runId, c.effectiveProviderId,
                                                    c.usedFallback, c.providerId)))
                /\ hooks' = [hooks EXCEPT !.onRunCreated = @ + 1]
                /\ lastCreate' = CreateOk(runId)
    /\ creating' = None
    /\ UNCHANGED <<now, query, degraded, trackerVars, activeRuns>>

(* executeCliRun(runId, provider, ...): spawn, activeRuns.set, onRunStarted,*)
(* the timeout armed, the handlers attached                                *)
executeCliRun(r) ==
    /\ runs[r].pc = "created"
    /\ Cardinality(Executed) < MaxExecuted
    /\ Get(Providers[runs[r].meta.providerId]).type = "cli"
    /\ runs' = [runs EXCEPT ![r].pc = "running", ![r].kind = "cli",
                            ![r].path = "close", ![r].timer = TRUE,
                            ![r].startTime = now]
    /\ activeRuns' = activeRuns \cup {r}
    /\ hooks' = [hooks EXCEPT !.onRunStarted = @ + 1]
    /\ UNCHANGED <<now, query, degraded, trackerVars, creating, lastCreate>>

(* What the subprocess writes to stdout / stderr *)
OutputPhrases == {"hello", "You've hit your usage limit"}

(* Output chunks delivered at any time after the spawn *)
CliDataAtAnyTime(r, phrase) ==
    /\ runs[r].kind = "cli"
    /\ Len(runs[r].output) < MaxChunks
    /\ runs' = [runs EXCEPT ![r].output = Append(@, phrase), ![r].datas = @ + 1]
    /\ UNCHANGED <<now, query, degraded, trackerVars, activeRuns, creating, lastCreate,
                   hooks>>

(* stdout / stderr 'data' *)
CliData(r, phrase) ==
    /\ runs[r].pc = "running"
    /\ Len(runs[r].output) < MaxChunks
    /\ runs' = [runs EXCEPT ![r].output = Append(@, phrase), ![r].datas = @ + 1]
    /\ UNCHANGED <<now, query, degraded, trackerVars, activeRuns, creating, lastCreate, hooks>>

(* A timeout that fires without signalling the process *)
CliTimeoutWithoutKill(r) ==
    /\ runs[r].pc = "running"
    /\ runs[r].timer
    /\ runs' = [runs EXCEPT ![r].timer = FALSE]
    /\ UNCHANGED <<now, query, degraded, trackerVars, activeRuns, creating, lastCreate,
                   hooks>>

(* The timeout fires: SIGTERM unless the process was already killed *)
CliTimeout(r) ==
    /\ runs[r].pc = "running"
    /\ runs[r].timer
    /\ runs' = [runs EXCEPT ![r].timer = FALSE, ![r].killed = TRUE]
    /\ UNCHANGED <<now, query, degraded, trackerVars, activeRuns, creating, lastCreate, hooks>>

(* The exit codes a process can end with: its own (0 or not), or null when *)
(* a signal ended it.  A signalled process may still end on its own first. *)
ExitCodes(run) == {Some(0), Some(1)} \cup (IF run.killed THEN {None} ELSE {})

(* 'close': clearTimeout, activeRuns.delete, writeFile(outputPath) starts *)
CliClose(r, code) ==
    /\ runs[r].pc = "running"
    /\ code \in ExitCodes(runs[r])
    /\ runs' = [runs EXCEPT ![r].pc = "output", ![r].timer = FALSE, ![r].code = code]
    /\ activeRuns' = activeRuns \ {r}
    /\ UNCHANGED <<now, query, degraded, trackerVars, creating, lastCreate, hooks>>

(* executeApiRun(runId, provider, ...): the AbortController, activeRuns.set,*)
(* onRunStarted, the screenshots, fetch                                    *)
executeApiRun(r) ==
    /\ runs[r].pc = "created"
    /\ Cardinality(Executed) < MaxExecuted
    /\ Get(Providers[runs[r].meta.providerId]).type = "api"
    /\ runs' = [runs EXCEPT ![r].pc = "fetching", ![r].kind = "api",
                            ![r].startTime = now]
    /\ activeRuns' = activeRuns \cup {r}
    /\ hooks' = [hooks EXCEPT !.onRunStarted = @ + 1]
    /\ UNCHANGED <<now, query, degraded, trackerVars, creating, lastCreate>>

(* The responses that are not ok: <<status, body>>; status 0 is a rejected *)
(* fetch, whose body is the error message.  Once controller.abort() was    *)
(* called the pending fetch rejects with the abort error.                  *)
ErrorResponses(run) ==
    IF run.killed
    THEN { <<0, <<"This operation was aborted">> >> }
    ELSE { <<429, <<>> >>, <<500, <<>> >>, <<500, <<"hello">> >>,
           <<500, <<"You've hit your usage limit">> >>, <<0, <<"fetch failed">> >> }

(* fetch settled with an ok response: the stream is read *)
ApiResponseOk(r) ==
    /\ runs[r].pc = "fetching"
    /\ ~runs[r].killed
    /\ runs' = [runs EXCEPT ![r].pc = "streaming", ![r].path = "ok"]
    /\ UNCHANGED <<now, query, degraded, trackerVars, activeRuns, creating, lastCreate, hooks>>

(* fetch settled with !response.ok: activeRuns.delete, then the metadata   *)
(* is read and the body awaited                                            *)
ApiResponseError(r, response) ==
    /\ runs[r].pc = "fetching"
    /\ response \in ErrorResponses(runs[r])
    /\ runs' = [runs EXCEPT ![r].pc = "analyze", ![r].path = "http-error",
                            ![r].code = Some(response[1]), ![r].text = response[2]]
    /\ activeRuns' = activeRuns \ {r}
    /\ UNCHANGED <<now, query, degraded, trackerVars, creating, lastCreate, hooks>>

(* A data line with delta.content: output += text; onData({text}) *)
ApiContent(r, phrase) ==
    /\ runs[r].pc = "streaming"
    /\ ~runs[r].killed
    /\ Len(runs[r].output) + Len(runs[r].reasoning) < MaxChunks
    /\ runs' = [runs EXCEPT ![r].output = Append(@, phrase), ![r].datas = @ + 1,
                            ![r].content = Append(@, phrase)]
    /\ UNCHANGED <<now, query, degraded, trackerVars, activeRuns, creating, lastCreate, hooks>>

(* A data line with delta.reasoning: reasoning += delta.reasoning *)
ApiReasoning(r) ==
    /\ runs[r].pc = "streaming"
    /\ ~runs[r].killed
    /\ Len(runs[r].output) + Len(runs[r].reasoning) < MaxChunks
    /\ runs' = [runs EXCEPT ![r].reasoning = Append(@, "think")]
    /\ UNCHANGED <<now, query, degraded, trackerVars, activeRuns, creating, lastCreate, hooks>>

(* reader.read() gave done: the reasoning fallback, then writeFile(output) *)
ApiStreamEnd(r) ==
    /\ runs[r].pc = "streaming"
    /\ ~runs[r].killed
    /\ runs' = [runs EXCEPT
                  ![r].pc = "output",
                  ![r].output = IF @ = <<>> /\ runs[r].reasoning # <<>>
                                THEN runs[r].reasoning ELSE @,
                  ![r].datas = IF runs[r].output = <<>> /\ runs[r].reasoning # <<>>
                               THEN @ + 1 ELSE @]
    /\ UNCHANGED <<now, query, degraded, trackerVars, activeRuns, creating, lastCreate, hooks>>

(* The messages of the exceptions processStream can throw while reading:   *)
(* a transport error, a malformed data line; once controller.abort() was   *)
(* called the pending reader.read() rejects with the abort error.          *)
StreamErrors(run) ==
    IF run.killed
    THEN { <<"This operation was aborted">> }
    ELSE { <<"fetch failed">>, <<"API Error: 429 Too Many Requests">> }

(* A catch handler that does not write the partial output *)
CatchWithoutOutput(run, message) ==
    [run EXCEPT !.pc = "analyze", !.path = "catch", !.text = message]

(* processStream().catch: activeRuns.delete, writeFile(output) if any *)
Catch(run, message) ==
    [run EXCEPT !.pc = IF run.output # <<>> THEN "output" ELSE "analyze",
                !.path = "catch", !.text = message]

ApiStreamError(r, message) ==
    /\ runs[r].pc = "streaming"
    /\ message \in StreamErrors(runs[r])
    /\ runs' = [runs EXCEPT ![r] = Catch(@, message)]
    /\ activeRuns' = activeRuns \ {r}
    /\ UNCHANGED <<now, query, degraded, trackerVars, creating, lastCreate, hooks>>

(* A completion of the output write that leaves the run in activeRuns *)
OutputWrittenKeepingActive(r) ==
    /\ runs[r].pc = "output"
    /\ runs' = [runs EXCEPT ![r].pc = "analyze", ![r].stored = runs[r].output]
    /\ UNCHANGED <<now, query, degraded, trackerVars, activeRuns, creating, lastCreate,
                   hooks>>

(* writeFile(outputPath) settled; on the ok path activeRuns.delete follows *)
OutputWritten(r) ==
    /\ runs[r].pc = "output"
    /\ runs' = [runs EXCEPT ![r].pc = "analyze", ![r].stored = runs[r].output]
    /\ activeRuns' = IF runs[r].path = "ok" THEN activeRuns \ {r} ELSE activeRuns
    /\ UNCHANGED <<now, query, degraded, trackerVars, creating, lastCreate, hooks>>

(* metadata.error = errorAnalysis.message || <fallback>, and the analysis *)
Failed(metadata, analysis, fallback) ==
    [metadata EXCEPT
        !.error = Some(IF OrElse(analysis.message, "") # ""
                       THEN Get(analysis.message) ELSE fallback),
        !.errorCategory = analysis.category,
        !.errorAnalysis = Some(analysis)]

(* The classification a finalizing handler computes (None on success) *)
Classification(run) ==
    CASE run.path = "close" ->
            IF run.code = Some(0) THEN None
            ELSE Some(analyzeError(run.output, run.code))
      [] run.path = "http-error" -> Some(analyzeHttpError(Get(run.code), run.text))
      [] run.path = "catch" -> Some(analyzeError(run.text, None))
      [] OTHER -> None

(* The metadata object a finalizing handler builds from the metadata.json  *)
(* it read, at time t                                                      *)
Terminal(run, t) ==
    CASE run.path = "close" ->
            LET metadata == [run.meta EXCEPT !.endTime = Some(t),
                                             !.duration = Some(t - run.startTime),
                                             !.exitCode = run.code,
                                             !.success = Some(run.code = Some(0)),
                                             !.outputSize = Len(run.output)]
            IN  IF run.code = Some(0) THEN metadata
                ELSE Failed(metadata, Get(Classification(run)), "Process exited with code")
      [] run.path = "http-error" ->
            Failed([run.meta EXCEPT !.endTime = Some(t),
                                    !.duration = Some(t - run.startTime),
                                    !.success = Some(FALSE)],
                   Get(Classification(run)), "API error")
      [] run.path = "catch" ->
            [Failed([run.meta EXCEPT !.endTime = Some(t),
                                     !.duration = Some(t - run.startTime),
                                     !.success = Some(FALSE)],
                    Get(Classification(run)), run.text[1])
                EXCEPT !.outputSize = Len(run.output)]
      [] run.path = "ok" ->
            (* usedReasoningAsFallback = !output.trim() && reasoning.trim(), *)
            (* read after the fallback assigned output = reasoning; a falsy  *)
            (* result (false or '') is FALSE here                            *)
            [run.meta EXCEPT !.endTime = Some(t),
                             !.duration = Some(t - run.startTime),
                             !.exitCode = Some(0),
                             !.success = Some(TRUE),
                             !.outputSize = Len(run.output),
                             !.hadReasoning = Some(run.reasoning # <<>>),
                             !.usedReasoningAsFallback =
                                 Some(run.output = <<>> /\ run.reasoning # <<>>)]

(* The handlers call handleProviderError for these classifications only *)
IsProviderError(analysis) ==
    /\ analysis.hasError
    /\ analysis.category \in {Some(CAT_RATE_LIMIT), Some(CAT_USAGE_LIMIT)}

(* handleProviderError(providerId, errorAnalysis, output): the hook, then  *)
(* the Tracker is told; which mark call it starts, "" for none             *)
ProviderErrorMark(analysis) ==
    IF analysis.category = Some(CAT_USAGE_LIMIT) /\ analysis.requiresFallback
    THEN "markUsageLimit"
    ELSE IF analysis.category = Some(CAT_RATE_LIMIT) THEN "markRateLimited"
    ELSE ""

handleProviderError(providerId, analysis) ==
    /\ hooks' = [hooks EXCEPT !.onProviderError = @ + 1]
    /\ CASE ProviderErrorMark(analysis) = "markUsageLimit" ->
                markUsageLimit(providerId, [ message |-> analysis.message,
                                             waitTime |-> analysis.waitTime ])
         [] ProviderErrorMark(analysis) = "markRateLimited" ->
                markRateLimited(providerId)
         [] OTHER -> UNCHANGED trackerVars

(* The handler has read metadata.json: it builds the terminal metadata,    *)
(* classifies a failure and, for a provider-level one, awaits              *)
(* handleProviderError                                                     *)
Analyze(r) ==
    /\ runs[r].pc = "analyze"
    /\ LET run == runs[r]
           analysis == Classification(run)
       IN  IF analysis # None /\ IsProviderError(Get(analysis))
           THEN /\ handleProviderError(run.meta.providerId, Get(analysis))
                /\ runs' = [runs EXCEPT
                              ![r].local = Terminal(run, now),
                              ![r].pc = IF calls' # calls THEN "mark" ELSE "write",
                              ![r].call = IF calls' # calls THEN Len(calls') ELSE @]
                /\ degraded' = IF calls' # calls
                               THEN Notified(degraded, run.meta.providerId)
                               ELSE degraded
           ELSE /\ runs' = [runs EXCEPT ![r].local = Terminal(run, now),
                                        ![r].pc = "write"]
                /\ UNCHANGED <<trackerVars, hooks, degraded>>
    /\ UNCHANGED <<now, query, activeRuns, creating, lastCreate>>

(* A handler that the rejection of the mark call ends *)
MarkSettledRethrowing(r) ==
    /\ runs[r].pc = "mark"
    /\ calls[runs[r].call].phase \in {"done", "failed"}
    /\ runs' = [runs EXCEPT ![r].pc = IF calls[runs[r].call].phase = "failed"
                                      THEN "threw" ELSE "write"]
    /\ UNCHANGED <<now, query, degraded, trackerVars, activeRuns, creating, lastCreate, hooks>>

(* The awaited mark call returned, or threw and .catch logged it *)
MarkSettled(r) ==
    /\ runs[r].pc = "mark"
    /\ calls[runs[r].call].phase \in {"done", "failed"}
    /\ runs' = [runs EXCEPT ![r].pc = "write"]
    /\ UNCHANGED <<now, query, degraded, trackerVars, activeRuns, creating, lastCreate, hooks>>

(* A terminal record of a failure classified usage-limit or rate-limit *)
LimitFailure(metadata) ==
    /\ metadata.success = Some(FALSE)
    /\ metadata.errorCategory \in {Some(CAT_RATE_LIMIT), Some(CAT_USAGE_LIMIT)}

(* Whether a completion hook or the completion callback throws *)
Throws == {"none", "hook", "callback"}

(* writeFile(metadataPath) settled: the terminal metadata is on disk; then *)
(* onRunCompleted / onRunFailed and onComplete.  An exception ends the     *)
(* handler, except inside processStream, where .catch handles it.          *)
WriteTerminal(r, throws) ==
    /\ runs[r].pc = "write"
    /\ throws \in Throws
    /\ LET run == runs[r]
           written == [run EXCEPT !.meta = run.local, !.writes = @ + 1,
                                  !.completes = IF throws = "hook" THEN @ ELSE @ + 1]
       IN  runs' = [runs EXCEPT ![r] =
                      IF throws = "none" THEN [written EXCEPT !.pc = "done"]
                      ELSE IF run.path = "ok" THEN Catch(written, <<"hook failed">>)
                      ELSE [written EXCEPT !.pc = "threw"]]
    /\ hooks' = IF runs[r].local.success = Some(TRUE)
                THEN [hooks EXCEPT !.onRunCompleted = @ + 1]
                ELSE [hooks EXCEPT !.onRunFailed = @ + 1]
    /\ degraded' = IF LimitFailure(runs[r].local)
                   THEN Terminated(degraded, runs[r].local.providerId)
                   ELSE degraded
    /\ UNCHANGED <<now, query, trackerVars, activeRuns, creating, lastCreate>>

(* isRunActive(runId): activeRuns.has(runId), as the promise resolves *)
isRunActive(r) == r \in activeRuns

(* A stopRun that signals the run and leaves it in the active set *)
stopRunKeepingActive(r) ==
    /\ IF r \notin activeRuns
       THEN runs' = [runs EXCEPT ![r].refused = TRUE]
       ELSE runs' = [runs EXCEPT ![r].killed = TRUE, ![r].stopped = TRUE]
    /\ UNCHANGED <<now, query, degraded, trackerVars, activeRuns, creating, lastCreate,
                   hooks>>

(* stopRun(runId): without an active handle it returns false; otherwise    *)
(* kill('SIGTERM') or abort(), then activeRuns.delete, and it returns true *)
stopRun(r) ==
    /\ IF r \notin activeRuns
       THEN /\ runs' = [runs EXCEPT ![r].refused = TRUE]
            /\ UNCHANGED activeRuns
       ELSE /\ runs' = [runs EXCEPT ![r].killed = TRUE, ![r].stopped = TRUE]
            /\ activeRuns' = activeRuns \ {r}
    /\ UNCHANGED <<now, query, degraded, trackerVars, creating, lastCreate, hooks>>

---------------------------------------------------------------------------
(* The Run Executor with the Tracker: runs are created, executed, stopped  *)
(* and finalized in every interleaving, while the Tracker is also called   *)
(* from outside (createAIToolkit's init, the status routes).               *)

(* The status file a previous session of the service left: backend "c"    *)
(* reached its usage limit.                                                *)
PersistedMap ==
    [EmptyMap EXCEPT !["c"] =
        Some(UsageLimitRecord(None, [ message |-> None, waitTime |-> None ], 0))]

(* After construction: nothing is loaded yet; the data directory is fresh, *)
(* or it holds the status file of a previous session.                      *)
Init ==
    /\ now = 0
    /\ heap = << EmptyMap >>
    /\ statusCache = 1
    /\ \/ disk = None /\ dirExists = FALSE
       \/ disk = Some(PersistedMap) /\ dirExists = TRUE
    /\ calls = <<>>
    /\ events = [ n |-> 0, last |-> None ]
    /\ runs = <<>>
    /\ activeRuns = {}
    /\ creating = None
    /\ lastCreate = None
    /\ hooks = NoHooks
    /\ degraded = NotDegraded
    /\ query = None

(* The calls of the runner's interface; stopRun is called for runs in    *)
(* progress                                                                *)
RunnerCall ==
    \/ \E providerId \in Ids, fallbackProviderId \in {None, Some("b")} :
           createRun(providerId, fallbackProviderId)
    \/ \E r \in RunIds :
        \/ executeCliRun(r)
        \/ executeApiRun(r)
    \/ \E r \in activeRuns : stopRun(r)

(* The events the runner's continuations and handlers wait for *)
RunnerEvent ==
    /\ ~MicrotaskPending
    /\ \/ CreateRunFallback
       \/ CreateRunFinish
       \/ \E r \in RunIds :
           \/ \E phrase \in OutputPhrases : CliData(r, phrase)
           \/ CliTimeout(r)
           \/ \E code \in {None, Some(0), Some(1)} : CliClose(r, code)
           \/ ApiResponseOk(r)
           \/ \E response \in ErrorResponses(runs[r]) : ApiResponseError(r, response)
           \/ \E phrase \in OutputPhrases : ApiContent(r, phrase)
           \/ ApiReasoning(r)
           \/ ApiStreamEnd(r)
           \/ \E message \in StreamErrors(runs[r]) : ApiStreamError(r, message)
           \/ OutputWritten(r)
           \/ Analyze(r)
           \/ MarkSettled(r)
           \/ \E throws \in Throws : WriteTerminal(r, throws)

(* The Tracker calls made by the runs' handlers, and those from outside *)
HandlerCalls == {runs[r].call : r \in RunIds} \ {0}

ExternalCalls == Len(calls) - Cardinality(HandlerCalls)

(* The Tracker called from outside while runs are in progress *)
RunnerTrackerCall ==
    /\ ExternalCalls < MaxExternal
    /\ \/ init /\ degraded' = NotDegraded
       \/ \E id \in Ids :
             /\ markUsageLimit(id, [ message |-> None, waitTime |-> None ])
             /\ UNCHANGED degraded
       \/ \E id \in {"a", "b"} :
             markAvailable(id) /\ degraded' = [degraded EXCEPT ![id] = 0]
    /\ UNCHANGED <<now, query, runnerVars>>

Next == RunnerCall \/ RunnerEvent \/ RunnerTrackerCall \/ TrackerProgress

Spec == Init /\ [][Next]_vars

---------------------------------------------------------------------------
(* The runs under fair scheduling.  The event loop runs every continuation *)
(* that is ready (the handlers' steps, the Tracker's file operations); an  *)
(* armed timer fires; a subprocess that was signalled exits.  Nothing is   *)
(* assumed of a subprocess that is not signalled, nor of the HTTP server.  *)
(* The Tracker is called from outside by createAIToolkit's init only.      *)

ToolkitInit ==
    /\ ExternalCalls < MaxExternal
    /\ init
    /\ degraded' = NotDegraded
    /\ UNCHANGED <<now, query, runnerVars>>

TimeoutStep(r) == r \in RunIds /\ ~MicrotaskPending /\ CliTimeout(r)

SignalledExit(r) ==
    /\ r \in RunIds
    /\ ~MicrotaskPending
    /\ runs[r].killed
    /\ \E code \in {None, Some(0), Some(1)} : CliClose(r, code)

HandlerStep(r) ==
    /\ r \in RunIds
    /\ ~MicrotaskPending
    /\ \/ OutputWritten(r)
       \/ Analyze(r)
       \/ MarkSettled(r)
       \/ \E throws \in Throws : WriteTerminal(r, throws)

Fairness ==
    /\ WF_vars(TrackerProgress)
    /\ \A r \in 1..MaxRuns :
          WF_vars(TimeoutStep(r)) /\ WF_vars(SignalledExit(r)) /\ WF_vars(HandlerStep(r))

FairNext == RunnerCall \/ RunnerEvent \/ ToolkitInit \/ TrackerProgress

FairSpec == Init /\ [][FairNext]_vars /\ Fairness

---------------------------------------------------------------------------
(* The Run Executor with stopRun called for any run at any time: a run not *)
(* yet started, in progress, being finalized, terminal or already stopped. *)
(* The Tracker is called by the runs' handlers only.                       *)

StopAnyRun == \E r \in RunIds : stopRun(r)

RunnerNext == RunnerCall \/ StopAnyRun \/ RunnerEvent \/ TrackerProgress

RunnerSpec == Init /\ [][RunnerNext]_vars

---------------------------------------------------------------------------
(* getFallbackProvider on its own: every configuration of the four ids     *)
(* (missing, disabled, enabled), every status of each (never recorded,     *)
(* usage-limited, marked available), every primary, every configured       *)
(* fallback of the primary and every task fallback id.                     *)

ProviderMaps ==
    { [i \in Ids |-> IF k[i] = "missing" THEN None
                     ELSE Some(Provider(i, "cli", k[i] = "enabled", None))] :
        k \in [Ids -> {"missing", "disabled", "enabled"}] }

StatusMaps ==
    { [i \in Ids |->
         CASE k[i] = "none" -> None
           [] k[i] = "limited" ->
                Some(UsageLimitRecord(None, [ message |-> None, waitTime |-> None ], 0))
           [] k[i] = "recovered" -> Some(MarkAvailableRecord(0))] :
        k \in { f \in [Ids -> {"none", "limited", "recovered"}] :
                  \A i \in Ids \ TrackerIds : f[i] # "recovered" } }

(* The configuration in which the primary's fallbackProvider is fb *)
WithFallback(providers, primaryProviderId, fb) ==
    [providers EXCEPT ![primaryProviderId] =
        IF @ = None THEN None ELSE Some([Get(@) EXCEPT !.fallbackProvider = fb])]

OptionalIds == {None} \cup {Some(i) : i \in Ids}

FallbackInit ==
    /\ now = 0
    /\ \E map \in StatusMaps : heap = << map >>
    /\ statusCache = 1
    /\ disk = None
    /\ dirExists = FALSE
    /\ calls = <<>>
    /\ events = [ n |-> 0, last |-> None ]
    /\ runs = <<>>
    /\ activeRuns = {}
    /\ creating = None
    /\ lastCreate = None
    /\ hooks = NoHooks
    /\ degraded = NotDegraded
    /\ \E providers \in ProviderMaps, primaryProviderId \in Ids,
          fb \in OptionalIds, taskFallbackId \in OptionalIds :
          query = Some([ primaryProviderId |-> primaryProviderId,
                         providers |-> WithFallback(providers, primaryProviderId, fb),
                         taskFallbackId |-> taskFallbackId,
                         called |-> FALSE,
                         result |-> None ])

(* The call: getFallbackProvider(primaryProviderId, providers, taskFallbackId) *)
FallbackCall ==
    /\ query # None
    /\ ~Get(query).called
    /\ query' = Some([Get(query) EXCEPT
                        !.called = TRUE,
                        !.result = getFallbackProvider(Get(query).primaryProviderId,
                                                       Get(query).providers,
                                                       Get(query).taskFallbackId)])
    /\ UNCHANGED <<now, degraded, trackerVars, runnerVars>>

FallbackSpec == FallbackInit /\ [][FallbackCall]_vars

---------------------------------------------------------------------------
(* getFallbackProvider called repeatedly with the same arguments, on every *)
(* configuration and status map of FallbackSpec.                           *)

MaxRepeats == 2

RepeatInit ==
    /\ now = 0
    /\ \E map \in StatusMaps : heap = << map >>
    /\ statusCache = 1
    /\ disk = None
    /\ dirExists = FALSE
    /\ calls = <<>>
    /\ events = [ n |-> 0, last |-> None ]
    /\ runs = <<>>
    /\ activeRuns = {}
    /\ creating = None
    /\ lastCreate = None
    /\ hooks = NoHooks
    /\ degraded = NotDegraded
    /\ \E providers \in ProviderMaps, primaryProviderId \in Ids,
          fb \in OptionalIds, taskFallbackId \in OptionalIds :
          query = Some([ primaryProviderId |-> primaryProviderId,
                         providers |-> WithFallback(providers, primaryProviderId, fb),
                         taskFallbackId |-> taskFallbackId,
                         n |-> 0,
                         previous |-> None,
                         result |-> None ])

(* A getFallbackProvider that records the status it looked up for the      *)
(* primary                                                                 *)
GetFallbackProviderStoring ==
    /\ query # None
    /\ Get(query).n < MaxRepeats
    /\ query' = Some([Get(query) EXCEPT
                        !.n = @ + 1,
                        !.previous = Get(query).result,
                        !.result = getFallbackProvider(Get(query).primaryProviderId,
                                                       Get(query).providers,
                                                       Get(query).taskFallbackId)])
    /\ heap' = [heap EXCEPT ![statusCache][Get(query).primaryProviderId] =
                                Some(getStatus(Get(query).primaryProviderId))]
    /\ UNCHANGED <<now, degraded, statusCache, disk, dirExists, calls, events, runnerVars>>

(* getFallbackProvider(primaryProviderId, providers, taskFallbackId) is    *)
(* called, for the n-th time with these arguments                          *)
GetFallbackProvider ==
    /\ query # None
    /\ Get(query).n < MaxRepeats
    /\ query' = Some([Get(query) EXCEPT
                        !.n = @ + 1,
                        !.previous = Get(query).result,
                        !.result = getFallbackProvider(Get(query).primaryProviderId,
                                                       Get(query).providers,
                                                       Get(query).taskFallbackId)])
    /\ UNCHANGED <<now, degraded, trackerVars, runnerVars>>

RepeatSpec == RepeatInit /\ [][GetFallbackProvider]_vars

---------------------------------------------------------------------------
(* The Tracker used by one caller that awaits each call: marks with every  *)
(* kind of wait-time string, the clock advancing by hours, and the         *)
(* synchronous queries getStatus, isAvailable and getTimeUntilRecovery.    *)

MaxHours == 3

(* Wait-time strings, as the time components they contain: none ("soon"),  *)
(* "0 minutes", "30 seconds", "2 hours", "1 day 1 hour 33 minutes"         *)
WaitTimes ==
    { << >>,
      << <<0, "minute">> >>,
      << <<30, "second">> >>,
      << <<2, "hour">> >>,
      << <<1, "day">>, <<1, "hour">>, <<33, "minute">> >> }

QueryIds == {"a", "b"}

QueryInit == TrackerInit

(* A mark call by the caller, once its previous call has settled *)
QueryMark ==
    /\ Len(calls) < MaxCalls
    /\ \A c \in 1..Len(calls) : calls[c].phase \in {"done", "failed"}
    /\ \/ \E w \in WaitTimes :
             markUsageLimit("a", [ message |-> None, waitTime |-> Some(w) ])
       \/ markUsageLimit("a", [ message |-> None, waitTime |-> None ])
       \/ markRateLimited("a")
       \/ markAvailable("a")
    /\ query' = None
    /\ UNCHANGED <<now, degraded, runnerVars>>

(* The file operations of the call in flight *)
QueryProgress ==
    /\ \E c \in 1..Len(calls) :
          MkdirDone(c) \/ SaveWrite(c) \/ SaveFail(c) \/ SaveResume(c)
    /\ UNCHANGED <<degraded, runnerVars>>

QueryTick ==
    /\ now + UnitMs("hour") <= MaxHours * UnitMs("hour")
    /\ now' = now + UnitMs("hour")
    /\ UNCHANGED <<query, degraded, trackerVars, runnerVars>>

(* A getStatus that stores the record it synthesizes *)
GetStatusStoring(id) ==
    /\ query' = Some([ op |-> "getStatus", id |-> id, result |-> getStatus(id) ])
    /\ heap' = [heap EXCEPT ![statusCache][id] = Some(getStatus(id))]
    /\ UNCHANGED <<now, degraded, statusCache, disk, dirExists, calls, events, runnerVars>>

(* getStatus(providerId) is called *)
GetStatus(id) ==
    /\ query' = Some([ op |-> "getStatus", id |-> id, result |-> getStatus(id) ])
    /\ UNCHANGED <<now, degraded, trackerVars, runnerVars>>

(* isAvailable(providerId) is called *)
IsAvailable(id) ==
    /\ query' = Some([ op |-> "isAvailable", id |-> id, result |-> isAvailable(id) ])
    /\ UNCHANGED <<now, degraded, trackerVars, runnerVars>>

(* getTimeUntilRecovery(providerId) is called *)
GetTimeUntilRecovery(id) ==
    /\ query' = Some([ op |-> "getTimeUntilRecovery", id |-> id,
                       result |-> getTimeUntilRecovery(id) ])
    /\ UNCHANGED <<now, degraded, trackerVars, runnerVars>>

QueryCall ==
    \E id \in QueryIds : GetStatus(id) \/ IsAvailable(id) \/ GetTimeUntilRecovery(id)

QueryNext == QueryMark \/ QueryProgress \/ QueryTick \/ QueryCall

QuerySpec == QueryInit /\ [][QueryNext]_vars

---------------------------------------------------------------------------
(* The Error Classifier on its own: analyzeError and analyzeHttpError      *)
(* applied to every text of up to MaxPhrases phrases, with every exit code *)
(* and HTTP status below.                                                  *)

MaxPhrases == 2

ClassifierTexts == UNION { [1..n -> Phrases] : n \in 0..MaxPhrases }

(* absent, success, failure, killed by SIGTERM *)
ExitCodeArgs == { None, Some(0), Some(1), Some(143) }

(* response.status || 0 *)
Statuses == { 0, 200, 204, 400, 401, 403, 429, 500 }

ClassifierInit ==
    /\ now = 0
    /\ heap = << EmptyMap >>
    /\ statusCache = 1
    /\ disk = None
    /\ dirExists = FALSE
    /\ calls = <<>>
    /\ events = [ n |-> 0, last |-> None ]
    /\ runs = <<>>
    /\ activeRuns = {}
    /\ creating = None
    /\ lastCreate = None
    /\ hooks = NoHooks
    /\ degraded = NotDegraded
    /\ \E text \in ClassifierTexts, exitCode \in ExitCodeArgs, status \in Statuses :
          query = Some([ op |-> "", text |-> text, exitCode |-> exitCode,
                         status |-> status, result |-> NoError ])

(* analyzeError(text, exitCode) is called *)
AnalyzeErrorCall ==
    /\ query # None
    /\ Get(query).op = ""
    /\ query' = Some([Get(query) EXCEPT
                        !.op = "analyzeError",
                        !.result = analyzeError(Get(query).text, Get(query).exitCode)])
    /\ UNCHANGED <<now, degraded, trackerVars, runnerVars>>

(* analyzeHttpError({ status, body: text }) is called *)
AnalyzeHttpErrorCall ==
    /\ query # None
    /\ Get(query).op = ""
    /\ query' = Some([Get(query) EXCEPT
                        !.op = "analyzeHttpError",
                        !.result = analyzeHttpError(Get(query).status, Get(query).text)])
    /\ UNCHANGED <<now, degraded, trackerVars, runnerVars>>

ClassifierNext == AnalyzeErrorCall \/ AnalyzeHttpErrorCall

ClassifierSpec == ClassifierInit /\ [][ClassifierNext]_vars

---------------------------------------------------------------------------
(* providers.js : the provider service on its own.  `query` holds the      *)
(* content of PROVIDERS_PATH (`file`) and the calls made so far            *)
(* (`requests`), each with the await it is suspended at:                   *)
(*   "load"   loadProviders(): the read of the file is in flight           *)
(*   "save"   saveProviders(data): the write of `data` is in flight        *)
(*   "done" / "failed"   the call returned `result` / threw `error`        *)

MaxRequests == 3

StoreIds == {"a", "b"}

(* providerData.name values, with name.toLowerCase().replace(...) of each *)
Names == {"A", "b"}

Slug(name) == IF name = "A" THEN "a" ELSE "b"

OptionalStoreIds == {None} \cup {Some(i) : i \in StoreIds}

(* { activeProvider: null, providers: {} } *)
EmptyStore == [ activeProvider |-> None, providers |-> [i \in StoreIds |-> None] ]

(* What loadProviders() returns when the file has content `file` *)
loadProviders(file) == OrElse(file, EmptyStore)

(* providerData.id || providerData.name.toLowerCase().replace(...) *)
NewId(providerData) == OrElse(providerData.id, Slug(providerData.name))

(* The provider createProvider builds *)
NewProvider(providerData) ==
    [ id |-> NewId(providerData),
      name |-> providerData.name,
      enabled |-> providerData.enabled # Some(FALSE) ]

(* An update in which the id of the updates wins *)
UpdatedProviderTakingId(provider, id, updates) ==
    [ id |-> OrElse(updates.id, id),
      name |-> OrElse(updates.name, provider.name),
      enabled |-> OrElse(updates.enabled, provider.enabled) ]

(* { ...data.providers[id], ...updates, id } *)
UpdatedProvider(provider, id, updates) ==
    [ id |-> id,
      name |-> OrElse(updates.name, provider.name),
      enabled |-> OrElse(updates.enabled, provider.enabled) ]

(* A createProvider that replaces the provider stored under the id *)
CreateOverwriting(data, providerData) ==
    [ throws |-> None,
      data |-> Some([ activeProvider |->
                          IF data.activeProvider = None
                          THEN Some(NewId(providerData)) ELSE data.activeProvider,
                      providers |->
                          [data.providers EXCEPT ![NewId(providerData)] =
                              Some(NewProvider(providerData))] ]),
      result |-> Some(NewProvider(providerData)) ]

(* createProvider(providerData) once `data` is loaded: what it throws, or  *)
(* the data it saves and the provider it returns                           *)
CreateLoaded(data, providerData) ==
    IF data.providers[NewId(providerData)] # None
    THEN [ throws |-> Some("Provider with this ID already exists"),
           data |-> None, result |-> None ]
    ELSE [ throws |-> None,
           data |-> Some([ activeProvider |->
                               IF data.activeProvider = None
                               THEN Some(NewId(providerData)) ELSE data.activeProvider,
                           providers |->
                               [data.providers EXCEPT ![NewId(providerData)] =
                                   Some(NewProvider(providerData))] ]),
           result |-> Some(NewProvider(providerData)) ]

(* updateProvider(id, updates) once `data` is loaded *)
UpdateLoaded(data, id, updates) ==
    IF data.providers[id] = None
    THEN [ throws |-> None, data |-> None, result |-> None ]
    ELSE [ throws |-> None,
           data |-> Some([data EXCEPT !.providers[id] =
                            Some(UpdatedProvider(Get(data.providers[id]), id, updates))]),
           result |-> Some(UpdatedProvider(Get(data.providers[id]), id, updates)) ]

(* Object.keys(data.providers)[0] after the delete *)
FirstRemaining(providers) ==
    IF \E i \in StoreIds : providers[i] # None
    THEN Some(CHOOSE i \in StoreIds :
                /\ providers[i] # None
                /\ \A j \in StoreIds : providers[j] # None => i = j \/ i = "a")
    ELSE None

(* deleteProvider(id) once `data` is loaded; the result is false or true *)
DeleteLoaded(data, id) ==
    IF data.providers[id] = None
    THEN [ throws |-> None, data |-> None, result |-> Some(FALSE) ]
    ELSE [ throws |-> None,
           data |-> Some([ activeProvider |->
                               IF data.activeProvider = Some(id)
                               THEN FirstRemaining([data.providers EXCEPT ![id] = None])
                               ELSE data.activeProvider,
                           providers |-> [data.providers EXCEPT ![id] = None] ]),
           result |-> Some(TRUE) ]

Request(op, id, arg) ==
    [ op |-> op, id |-> id, arg |-> arg, phase |-> "load",
      data |-> None, result |-> None, error |-> None ]

StoreFile == Get(query).file

Requests == Get(query).requests

(* A fresh data directory: no providers file, no sample file *)
StoreInit ==
    /\ now = 0
    /\ heap = << EmptyMap >>
    /\ statusCache = 1
    /\ disk = None
    /\ dirExists = FALSE
    /\ calls = <<>>
    /\ events = [ n |-> 0, last |-> None ]
    /\ runs = <<>>
    /\ activeRuns = {}
    /\ creating = None
    /\ lastCreate = None
    /\ hooks = NoHooks
    /\ degraded = NotDegraded
    /\ query = Some([ file |-> None, requests |-> <<>> ])

StoreRequest(request) ==
    /\ Len(Requests) < MaxRequests
    /\ query' = Some([Get(query) EXCEPT !.requests = Append(@, request)])
    /\ UNCHANGED <<now, degraded, trackerVars, runnerVars>>

(* createProvider(providerData) is called *)
createProvider ==
    \E id \in OptionalStoreIds, name \in Names, enabled \in {None, Some(FALSE)} :
        StoreRequest(Request("createProvider", NewId([ id |-> id, name |-> name ]),
                             [ id |-> id, name |-> name, enabled |-> enabled ]))

(* updateProvider(id, updates) is called *)
updateProvider ==
    \E id \in StoreIds, uid \in OptionalStoreIds, enabled \in {None, Some(FALSE)} :
        StoreRequest(Request("updateProvider", id,
                             [ id |-> uid, name |-> None, enabled |-> enabled ]))

(* deleteProvider(id) is called *)
deleteProvider ==
    \E id \in StoreIds : StoreRequest(Request("deleteProvider", id, None))

(* The outcome of request r once loadProviders() returned `data` *)
Outcome(r, data) ==
    CASE r.op = "createProvider" -> CreateLoaded(data, r.arg)
      [] r.op = "updateProvider" -> UpdateLoaded(data, r.id, r.arg)
      [] OTHER -> DeleteLoaded(data, r.id)

(* loadProviders() of request k returns; the call runs up to its write,    *)
(* its return or its throw                                                 *)
StoreLoaded(k) ==
    /\ Requests[k].phase = "load"
    /\ LET out == Outcome(Requests[k], loadProviders(StoreFile))
       IN  query' = Some([Get(query) EXCEPT !.requests[k] =
               [@ EXCEPT !.phase = IF out.throws # None THEN "failed"
                                   ELSE IF out.data # None THEN "save" ELSE "done",
                         !.data = out.data,
                         !.result = out.result,
                         !.error = out.throws]])
    /\ UNCHANGED <<now, degraded, trackerVars, runnerVars>>

(* saveProviders(data) of request k has written the file; the call returns *)
StoreSaved(k) ==
    /\ Requests[k].phase = "save"
    /\ query' = Some([ file |-> Requests[k].data,
                       requests |-> [Requests EXCEPT ![k].phase = "done"] ])
    /\ UNCHANGED <<now, degraded, trackerVars, runnerVars>>

StoreProgress == \E k \in 1..Len(Requests) : StoreLoaded(k) \/ StoreSaved(k)

StoreNext == createProvider \/ updateProvider \/ deleteProvider \/ StoreProgress

StoreSpec == StoreInit /\ [][StoreNext]_vars

---------------------------------------------------------------------------
(* parseWaitTime and formatTimeRemaining on their own: each applied to     *)
(* every input below.                                                      *)

MaxComponents == 3

MaxDays == 1

Units == {"day", "hour", "minute", "second"}

(* <N> of a component *)
Numbers == {0, 1, 2, 30, 45}

(* A stretch of text no pattern of parseWaitTime matches *)
OtherText == <<0, "text">>

(* The components "<N> <unit>", the days few enough for 32-bit sums *)
Components == { c \in Numbers \X Units : c[2] = "day" => c[1] <= 2 }

(* Wait-time strings: up to MaxComponents components and stretches of      *)
(* other text in any order, at most one component of each unit             *)
WaitTimeStrings ==
    { w \in UNION { [1..n -> Components \cup {OtherText}] :
                      n \in 0..MaxComponents } :
        \A i, j \in 1..Len(w) : i # j /\ w[i][2] = w[j][2] => w[i] = OtherText }

(* Durations around every boundary of formatTimeRemaining, and two in the  *)
(* past                                                                    *)
Durations ==
    { d * UnitMs("day") + h * UnitMs("hour") + m * UnitMs("minute") + r :
        d \in 0..MaxDays, h \in {0, 2, 23}, m \in {0, 30, 59}, r \in {0, 1, 59999} }
    \cup {-1000, -1}

TimeInit ==
    /\ now = 0
    /\ heap = << EmptyMap >>
    /\ statusCache = 1
    /\ disk = None
    /\ dirExists = FALSE
    /\ calls = <<>>
    /\ events = [ n |-> 0, last |-> None ]
    /\ runs = <<>>
    /\ activeRuns = {}
    /\ creating = None
    /\ lastCreate = None
    /\ hooks = NoHooks
    /\ degraded = NotDegraded
    /\ \/ \E w \in {None} \cup {Some(s) : s \in WaitTimeStrings} :
             query = Some([ fn |-> "parseWaitTime", arg |-> w,
                            called |-> FALSE, result |-> None ])
       \/ \E ms \in Durations :
             query = Some([ fn |-> "formatTimeRemaining", arg |-> ms,
                            called |-> FALSE, result |-> None ])

(* parseWaitTime(waitTimeStr) is called *)
ParseWaitTimeCall ==
    /\ query # None
    /\ Get(query).fn = "parseWaitTime"
    /\ ~Get(query).called
    /\ query' = Some([Get(query) EXCEPT
                        !.called = TRUE,
                        !.result = parseWaitTime(Get(query).arg)])
    /\ UNCHANGED <<now, degraded, trackerVars, runnerVars>>

(* formatTimeRemaining(ms) is called *)
FormatTimeRemainingCall ==
    /\ query # None
    /\ Get(query).fn = "formatTimeRemaining"
    /\ ~Get(query).called
    /\ query' = Some([Get(query) EXCEPT
                        !.called = TRUE,
                        !.result = Some(formatTimeRemaining(Get(query).arg))])
    /\ UNCHANGED <<now, degraded, trackerVars, runnerVars>>

TimeNext == ParseWaitTimeCall \/ FormatTimeRemainingCall

TimeSpec == TimeInit /\ [][TimeNext]_vars

---------------------------------------------------------------------------
(* The Tracker with mark calls only, made without waiting for one          *)
(* another: no init() is in flight.                                        *)

MarkInit == TrackerInit

(* A mark call, while earlier ones may still be saving *)
MarkCall ==
    /\ Len(calls) < MaxCalls
    /\ \/ \E id \in TrackerIds, errorInfo \in ErrorInfos : markUsageLimit(id, errorInfo)
       \/ \E id \in TrackerIds : markRateLimited(id)
       \/ \E id \in TrackerIds : markAvailable(id)
    /\ UNCHANGED <<now, query, degraded, runnerVars>>

(* The file operations of the calls in flight settle, in any order *)
MarkProgress ==
    /\ \E c \in 1..Len(calls) :
          MkdirDone(c) \/ SaveWrite(c) \/ SaveFail(c) \/ SaveResume(c)
    /\ UNCHANGED <<degraded, runnerVars>>

MarkNext == MarkCall \/ MarkProgress \/ Tick

MarkSpec == MarkInit /\ [][MarkNext]_vars

---------------------------------------------------------------------------
(* Properties *)

(* A run's record is terminal: success and endTime are set *)
TerminalRecord(r) ==
    /\ runs[r].meta.success # None
    /\ runs[r].meta.endTime # None

(* C1: for every executed run the terminal update of the Run Record is     *)
(* written exactly once, whatever the interleaving and even when a         *)
(* completion hook or the completion callback throws: the record is never  *)
(* written a second time.                                                  *)
C1_TerminalWrittenOnce == \A r \in RunIds : runs[r].writes <= 1

(* C1, the case refuting it: a streamed run whose terminal record was      *)
(* written as a success and then rewritten as a failure.                   *)
C1_Rewritten ==
    \E r \in RunIds :
        /\ runs[r].writes = 2
        /\ runs[r].meta.success = Some(FALSE)
        /\ runs[r].meta.exitCode = Some(0)

(* C2: every run whose execution was started is eventually finalized (a    *)
(* terminal record, and out of the active set): a process run from the     *)
(* moment it is spawned, the timeout signalling it if it does not exit; an *)
(* HTTP run from the error response, the end of the stream or the          *)
(* exception.                                                              *)
Finalized(r) == r \in RunIds /\ TerminalRecord(r) /\ r \notin activeRuns

ProcessStarted(r) == r \in RunIds /\ runs[r].kind = "cli"

HttpEnded(r) ==
    /\ r \in RunIds
    /\ runs[r].kind = "api"
    /\ runs[r].pc \notin {"fetching", "streaming"}

C2_EveryRunFinalized ==
    \A r \in 1..MaxRuns : (ProcessStarted(r) \/ HttpEnded(r)) ~> Finalized(r)

(* C2, its case: a process run that the timeout signalled, which exited on *)
(* the signal and is finalized.                                            *)
C2_TimedOutRunFinalized ==
    \E r \in RunIds :
        /\ runs[r].kind = "cli"
        /\ runs[r].killed
        /\ ~runs[r].stopped
        /\ runs[r].meta.exitCode = None
        /\ Finalized(r)

(* C3: every run that ended in failure has a terminal record with          *)
(* success=false and an embedded classification with hasError=true and a   *)
(* non-null category.                                                      *)
C3_FailureClassified ==
    \A r \in RunIds :
        runs[r].meta.success = Some(FALSE) =>
            /\ runs[r].meta.errorAnalysis # None
            /\ Get(runs[r].meta.errorAnalysis).hasError
            /\ Get(runs[r].meta.errorAnalysis).category # None
            /\ runs[r].meta.errorCategory # None

(* C3, the case refuting it: a process run ended by a signal whose record  *)
(* carries a no-error classification.                                      *)
C3_SignalledRunUnclassified ==
    \E r \in RunIds :
        /\ runs[r].kind = "cli"
        /\ runs[r].meta.success = Some(FALSE)
        /\ runs[r].meta.exitCode = None
        /\ runs[r].meta.errorAnalysis = Some(NoError)

(* C4: each stored status record, in the cache and in the file, satisfies: *)
(* available=true implies reason 'ok' and no estimatedRecovery;            *)
(* available=false implies reason 'usage-limit' or 'rate-limit' and an     *)
(* estimatedRecovery.                                                      *)
RecordWellFormed(record) ==
    /\ record.available => record.reason = "ok" /\ record.estimatedRecovery = None
    /\ ~record.available =>
          /\ record.reason \in {"usage-limit", "rate-limit"}
          /\ record.estimatedRecovery # None

MapWellFormed(map) == \A i \in Ids : map[i] # None => RecordWellFormed(Get(map[i]))

C4_StatusRecordInvariant ==
    /\ \A o \in 1..Len(heap) : MapWellFormed(heap[o])
    /\ disk # None => MapWellFormed(Get(disk))

(* C4, its case: the cache holds a record of an unavailable backend, a     *)
(* record init's sweep recovered and the file holds records too.           *)
C4_MarkedAndRecovered ==
    /\ \E i \in Ids : Cache[i] # None /\ ~Get(Cache[i]).available
    /\ \E i \in Ids : /\ Cache[i] # None
                      /\ Get(Cache[i]).available
                      /\ Get(Cache[i]).failureCount = None
    /\ disk # None /\ Get(disk) # EmptyMap

(* C5: a run created by a createRun that requested backend B after a run   *)
(* on B terminated with usage-limit or rate-limit -- no markAvailable(B)   *)
(* and no init call since that run's handler told the Tracker, no step of  *)
(* an init call since its terminal record -- does not execute on B.        *)
C5_NoRunOnLimitedBackend ==
    \A r \in RunIds : runs[r].afterLimit => runs[r].meta.providerId # runs[r].requested

(* C5, the case refuting it: such a run is created on B itself, not        *)
(* substituted, although every Tracker call made so far returned without   *)
(* an error.                                                               *)
C5_RunOnLimitedBackend ==
    /\ \E r \in RunIds :
          /\ runs[r].afterLimit
          /\ runs[r].meta.providerId = runs[r].requested
          /\ ~runs[r].meta.usedFallback
    /\ \A c \in 1..Len(calls) : calls[c].phase = "done"

(* C6: when the requested backend is unavailable and fallback resolution   *)
(* returns nothing, createRun fails with the error that names the          *)
(* unavailability (the reason) and the recovery estimate; no run record,   *)
(* no run id, no hook, and the active set and the status map are as        *)
(* before.                                                                 *)
ResolutionFails ==
    /\ creating # None
    /\ Get(creating).phase = "getAllProviders"
    /\ ~isAvailable(Get(creating).providerId)
    /\ getFallbackProvider(Get(creating).providerId, Providers,
                           Get(creating).fallbackProviderId) = None
    /\ creating' # creating

C6_UnavailableWithoutFallbackFails ==
    [][ResolutionFails =>
          /\ creating' = None
          /\ lastCreate' # None
          /\ ~Get(lastCreate').ok
          /\ Get(lastCreate').message = "unavailable and no fallback is available"
          /\ Get(lastCreate').reason \in {"usage-limit", "rate-limit"}
          /\ Get(lastCreate').recovery # None
          /\ Get(Get(lastCreate').recovery).text \in {"any moment", "< 1m", "parts"}
          /\ Get(lastCreate').runId = 0
          /\ runs' = runs
          /\ hooks' = hooks
          /\ activeRuns' = activeRuns
          /\ heap' = heap /\ statusCache' = statusCache /\ disk' = disk]_vars

(* C6, its case: a createRun that ended with the unavailable error while   *)
(* the requested backend is unavailable and no backend can replace it.     *)
C6_FailedUnavailable ==
    /\ lastCreate # None
    /\ ~Get(lastCreate).ok
    /\ Get(lastCreate).message = "unavailable and no fallback is available"
    /\ Get(lastCreate).reason \in {"usage-limit", "rate-limit"}
    /\ creating = None

(* C7: no run record exists for a request whose backend is missing or      *)
(* disabled: createRun fails for it whatever the Tracker says of the       *)
(* backend and whatever fallbacks exist.                                   *)
C7_RequestedBackendValidated ==
    \A r \in RunIds :
        /\ Providers[runs[r].requested] # None
        /\ Get(Providers[runs[r].requested]).enabled

(* C7, the case refuting it: a run record created for a request that named *)
(* a disabled backend.                                                     *)
C7_RunForDisabledBackend ==
    \E r \in RunIds :
        /\ Providers[runs[r].requested] # None
        /\ ~Get(Providers[runs[r].requested]).enabled

(* C8: the record createRun creates names the effective backend: the       *)
(* requested id, usedFallback=false and originalProviderId null when the   *)
(* requested backend was available; the resolved fallback's id,            *)
(* usedFallback=true and originalProviderId the requested id when it was   *)
(* not; its terminal fields are null.                                      *)
C8_RecordNamesEffectiveBackend ==
    [][Len(runs') = Len(runs) + 1 =>
          LET c == Get(creating)
              metadata == runs'[Len(runs')].meta
          IN  /\ ~c.unavailable =>
                    /\ metadata.providerId = c.providerId
                    /\ metadata.usedFallback = FALSE
                    /\ metadata.originalProviderId = None
              /\ c.unavailable =>
                    /\ c.fallback # None
                    /\ metadata.providerId = Get(c.fallback).provider.id
                    /\ metadata.usedFallback = TRUE
                    /\ metadata.originalProviderId = Some(c.providerId)
              /\ metadata.endTime = None
              /\ metadata.duration = None
              /\ metadata.exitCode = None
              /\ metadata.success = None
              /\ metadata.error = None]_vars

(* C8, its case: a created run that a fallback backend was substituted for *)
C8_SubstitutedRun ==
    \E r \in RunIds :
        /\ runs[r].pc = "created"
        /\ runs[r].meta.usedFallback
        /\ runs[r].meta.providerId # runs[r].requested
        /\ runs[r].meta.originalProviderId = Some(runs[r].requested)

(* The candidates of a getFallbackProvider call, stated on its arguments   *)
(* and on the status map                                                   *)
Qualifies(id) ==
    /\ Get(query).providers[id] # None
    /\ Get(Get(query).providers[id]).enabled
    /\ (Cache[id] = None \/ Get(Cache[id]).available)

TaskGiven ==
    /\ Get(query).taskFallbackId # None
    /\ Get(Get(query).taskFallbackId) # Get(query).primaryProviderId

ConfiguredGiven ==
    /\ Get(query).providers[Get(query).primaryProviderId] # None
    /\ Get(Get(query).providers[Get(query).primaryProviderId]).fallbackProvider # None

ConfiguredId ==
    Get(Get(Get(query).providers[Get(query).primaryProviderId]).fallbackProvider)

TaskQualifies == TaskGiven /\ Qualifies(Get(Get(query).taskFallbackId))

ConfiguredQualifies == ConfiguredGiven /\ Qualifies(ConfiguredId)

SystemQualifying ==
    { k \in 1..Len(DefaultFallbackPriority) :
        /\ DefaultFallbackPriority[k] # Get(query).primaryProviderId
        /\ Qualifies(DefaultFallbackPriority[k]) }

Resolved(id, source) ==
    Get(query).result = Some([ provider |-> Get(Get(query).providers[id]),
                               source |-> source ])

(* C9: getFallbackProvider resolves in the order task, provider, system:   *)
(* the task fallback id, if given, other than the primary, enabled and     *)
(* available, with source 'task'; otherwise the primary's configured       *)
(* fallback, if enabled and available, with source 'provider'; otherwise   *)
(* the first id of the priority list other than the primary that is        *)
(* enabled and available, with source 'system'.                            *)
C9_ResolutionOrder ==
    (query # None /\ Get(query).called) =>
        IF TaskQualifies THEN Resolved(Get(Get(query).taskFallbackId), "task")
        ELSE IF ConfiguredQualifies THEN Resolved(ConfiguredId, "provider")
        ELSE \A k \in SystemQualifying :
                (\A j \in SystemQualifying : k <= j) =>
                    Resolved(DefaultFallbackPriority[k], "system")

(* C9, its case: the task fallback, the configured fallback and two ids of *)
(* the priority list all qualify, and the call has returned.               *)
C9_AllTiersQualify ==
    /\ query # None
    /\ Get(query).called
    /\ TaskQualifies
    /\ ConfiguredQualifies
    /\ ConfiguredId # Get(Get(query).taskFallbackId)
    /\ Cardinality(SystemQualifying) >= 2

(* C10: getFallbackProvider returns only a backend that is enabled and     *)
(* available, a candidate that is not being skipped for the next tier, and *)
(* it returns null exactly when no tier has an enabled and available       *)
(* candidate.                                                              *)
C10_OnlyQualifyingOrNull ==
    (query # None /\ Get(query).called) =>
        /\ Get(query).result # None => Qualifies(Get(Get(query).result).provider.id)
        /\ Get(query).result = None <=>
              (~TaskQualifies /\ ~ConfiguredQualifies /\ SystemQualifying = {})

(* C10, its case: the task fallback is disabled and the configured         *)
(* fallback unavailable, both are skipped and the system tier answers.     *)
C10_TwoTiersSkipped ==
    /\ query # None
    /\ Get(query).called
    /\ TaskGiven
    /\ Get(query).providers[Get(Get(query).taskFallbackId)] # None
    /\ ~Get(Get(query).providers[Get(Get(query).taskFallbackId)]).enabled
    /\ ConfiguredGiven
    /\ Get(query).providers[ConfiguredId] # None
    /\ Get(Get(query).providers[ConfiguredId]).enabled
    /\ Cache[ConfiguredId] # None
    /\ ~Get(Cache[ConfiguredId]).available
    /\ Get(query).result # None
    /\ Get(Get(query).result).source = "system"

(* C11: a failed run notifies the Tracker and the error hook only when its *)
(* classification is rate-limit or usage-limit: the handler of a failure   *)
(* of any other category leaves the status records, the status file and    *)
(* the error hook alone; a notified failure calls the hook once, starts    *)
(* one mark call, and neither that step nor any later step of the mark     *)
(* call changes the status record of a backend other than the one the run  *)
(* executed on.                                                            *)
LimitClassified(run) ==
    /\ Classification(run) # None
    /\ Get(Classification(run)).category \in {Some(CAT_RATE_LIMIT), Some(CAT_USAGE_LIMIT)}

OthersKept(id) == \A i \in Ids \ {id} : heap'[statusCache'][i] = heap[statusCache][i]

C11_OnlyLimitFailuresNotify ==
    [][\A r \in RunIds :
          /\ (runs[r].pc = "analyze" /\ runs'[r].pc # "analyze") =>
                IF LimitClassified(runs[r])
                THEN /\ hooks'.onProviderError = hooks.onProviderError + 1
                     /\ Len(calls') = Len(calls) + 1
                     /\ calls'[Len(calls')].id = runs[r].meta.providerId
                     /\ ~AvailableIn(heap'[statusCache'], runs[r].meta.providerId)
                     /\ OthersKept(runs[r].meta.providerId)
                ELSE /\ hooks'.onProviderError = hooks.onProviderError
                     /\ UNCHANGED <<heap, statusCache, disk, calls, events>>
          /\ (runs[r].call # 0 /\ calls'[runs[r].call] # calls[runs[r].call]) =>
                OthersKept(runs[r].meta.providerId)
      ]_vars

(* C12: stopRun(runId) returns true exactly when the run is in the active  *)
(* set at the call; it then requests termination and removes the run, so   *)
(* that isRunActive(runId) is false afterwards.  For a run without an      *)
(* active handle it returns false and changes nothing, so a second stopRun *)
(* of the same run is a no-op.                                             *)
C12_StopRunResult ==
    [][\A r \in RunIds :
          /\ (runs'[r].stopped /\ ~runs[r].stopped) =>
                /\ r \in activeRuns
                /\ runs'[r].killed
                /\ r \notin activeRuns'
                /\ runs'[r].refused = runs[r].refused
          /\ (runs'[r].refused /\ ~runs[r].refused) =>
                /\ r \notin activeRuns
                /\ r \notin activeRuns'
                /\ runs' = [runs EXCEPT ![r].refused = TRUE]
                /\ UNCHANGED <<now, trackerVars, activeRuns, creating, lastCreate, hooks>>
      ]_vars

(* C12, its case: a run that was stopped while active, and for which a     *)
(* second stopRun returned false.                                          *)
C12_StoppedTwice ==
    \E r \in RunIds : runs[r].stopped /\ runs[r].refused /\ r \notin activeRuns

(* C13: a run for which stopRun returned true ends with a failed terminal  *)
(* record (success=false), at whatever point of its execution stopRun was  *)
(* called, for process runs and for streaming HTTP runs.                   *)
C13_StoppedRunFails ==
    \A r \in RunIds :
        (runs[r].stopped /\ TerminalRecord(r)) => runs[r].meta.success = Some(FALSE)

(* C13, the case refuting it: a streaming HTTP run that stopRun found      *)
(* active (the stream had ended, output.txt was being written), and whose  *)
(* terminal record says success.                                           *)
C13_StoppedStreamSucceeds ==
    \E r \in RunIds :
        /\ runs[r].kind = "api"
        /\ runs[r].stopped
        /\ runs[r].pc = "done"
        /\ runs[r].meta.success = Some(TRUE)

(* C14: within a run every chunk-delivery callback (onData) fires before   *)
(* the run's completion callback (onComplete): once onComplete was called  *)
(* no further chunk is delivered, for process runs and HTTP runs alike.    *)
C14_NoChunkAfterCompletion ==
    [][\A r \in RunIds : runs[r].completes > 0 => runs'[r].datas = runs[r].datas]_vars

(* C14, its case: a run that delivered a chunk and then completed *)
C14_ChunksThenCompletion ==
    /\ \E r \in RunIds : runs[r].kind = "cli" /\ runs[r].datas > 0 /\ runs[r].completes > 0

(* A streamed run that succeeded and whose terminal record is written *)
StreamedSuccess(r) ==
    /\ runs[r].kind = "api"
    /\ runs[r].path = "ok"
    /\ runs[r].writes > 0
    /\ runs[r].meta.success = Some(TRUE)

(* C15: a successful streamed run that produced reasoning tokens and no    *)
(* content tokens stores the concatenated reasoning as its output and its  *)
(* terminal record has usedReasoningAsFallback = true; one that produced   *)
(* content stores the concatenated content and the flag is not true.       *)
C15_ReasoningFallback ==
    \A r \in RunIds :
        StreamedSuccess(r) =>
            /\ (runs[r].content = <<>> /\ runs[r].reasoning # <<>>) =>
                    /\ runs[r].stored = runs[r].reasoning
                    /\ runs[r].meta.usedReasoningAsFallback = Some(TRUE)
            /\ runs[r].content # <<>> =>
                    /\ runs[r].stored = runs[r].content
                    /\ runs[r].meta.usedReasoningAsFallback # Some(TRUE)

(* C15, the case refuting it: a streamed run with reasoning tokens only,   *)
(* stored with the reasoning as its output and the flag false              *)
C15_FallbackNotFlagged ==
    \E r \in RunIds :
        /\ StreamedSuccess(r)
        /\ runs[r].content = <<>>
        /\ runs[r].reasoning # <<>>
        /\ runs[r].stored = runs[r].reasoning
        /\ runs[r].meta.hadReasoning = Some(TRUE)
        /\ runs[r].meta.usedReasoningAsFallback = Some(FALSE)

(* A streamed run that failed with an exception of the stream after some   *)
(* content chunks were delivered, and whose handler has finished           *)
StreamFailedAfterContent(r) ==
    /\ runs[r].path = "catch"
    /\ runs[r].text \in StreamErrors(runs[r])
    /\ runs[r].content # <<>>
    /\ runs[r].pc \in {"done", "threw"}

(* The rule of the HTTP error branch: the Tracker is told exactly when the *)
(* failure is classified rate-limit, or usage-limit requiring a fallback   *)
TrackerToldByRule(r) ==
    LET analysis == Get(Classification(runs[r]))
    IN  runs[r].call # 0 <=>
            (IsProviderError(analysis) /\ ProviderErrorMark(analysis) # "")

(* C16: a streamed run that fails with a transport exception after some    *)
(* content chunks ends with success = false, its stored output is the      *)
(* concatenation of the content chunks delivered before the exception, and *)
(* the Tracker is notified under the same rule as for an HTTP error        *)
(* response.                                                               *)
C16_StreamFailureKeepsOutput ==
    \A r \in RunIds :
        /\ StreamFailedAfterContent(r) =>
              /\ runs[r].meta.success = Some(FALSE)
              /\ runs[r].stored = runs[r].content
              /\ runs[r].meta.outputSize = Len(runs[r].content)
              /\ TrackerToldByRule(r)
        /\ (runs[r].path = "http-error" /\ runs[r].pc \in {"done", "threw"}) =>
              TrackerToldByRule(r)

(* C16, its case: a stream that broke with a rate-limit message after a    *)
(* content chunk; the chunk is stored and the Tracker was told             *)
C16_PartialOutputStored ==
    \E r \in RunIds :
        /\ StreamFailedAfterContent(r)
        /\ runs[r].stored = runs[r].content
        /\ runs[r].meta.errorCategory = Some(CAT_RATE_LIMIT)
        /\ runs[r].call # 0

(* The failure counter of an entry as the mark calls read it:              *)
(* previousStatus?.failureCount || 0                                       *)
FailureCounter(entry) ==
    IF entry = None THEN 0 ELSE OrElse(Get(entry).failureCount, 0)

(* The entry's estimatedRecovery is in the past at time t *)
Expired(entry, t) ==
    /\ entry # None
    /\ Get(entry).estimatedRecovery # None
    /\ Get(Get(entry).estimatedRecovery) < t

(* C17: when init() has loaded the file and swept it, every loaded entry   *)
(* whose estimatedRecovery is in the past is available with failure        *)
(* counter 0, every other entry is as loaded, the store is saved exactly   *)
(* when some entry changed (else init is finished and the file untouched), *)
(* and without a file the result is the empty map.                         *)
C17_InitSweeps ==
    [][\A c \in 1..Len(calls) :
          (calls[c].phase \in {"nofile", "loaded"} /\ calls'[c].phase # calls[c].phase) =>
              LET loaded == calls[c].snap
                  result == heap'[statusCache']
              IN  /\ \A id \in Ids :
                        IF Expired(loaded[id], now)
                        THEN /\ result[id] # None
                             /\ Get(result[id]).available
                             /\ Get(result[id]).reason = "ok"
                             /\ FailureCounter(result[id]) = 0
                        ELSE result[id] = loaded[id]
                  /\ IF \E id \in Ids : Expired(loaded[id], now)
                     THEN /\ calls'[c].op = "init"
                          /\ calls'[c].phase \in {"mkdir", "write"}
                          /\ calls'[c].obj = statusCache'
                     ELSE calls'[c].phase = "done"
                  /\ disk' = disk
                  /\ calls[c].phase = "nofile" => result = EmptyMap]_vars

(* C17, its case: an init call swept one loaded entry, kept another that   *)
(* is still unavailable, and is saving the store                           *)
C17_SweptOneKeptOne ==
    \E c \in 1..Len(calls) :
        /\ calls[c].op = "init"
        /\ calls[c].phase = "write"
        /\ \E i, j \in Ids :
              /\ calls[c].snap[i] = Some(AvailableRecord(now))
              /\ calls[c].snap[j] # None
              /\ ~Get(calls[c].snap[j]).available

(* C18: once time has advanced past the estimatedRecovery of a backend     *)
(* marked unavailable, isAvailable(id) is true, without a markAvailable.   *)
C18_AvailableAfterRecovery ==
    \A id \in Ids : Expired(Cache[id], now) => isAvailable(id)

(* C18, the case refuting it: with no call in flight, a backend marked     *)
(* rate-limited whose estimatedRecovery has passed is still unavailable    *)
C18_StillUnavailable ==
    /\ \A c \in 1..Len(calls) : calls[c].phase = "done"
    /\ \E id \in Ids :
          /\ Expired(Cache[id], now)
          /\ Get(Cache[id]).reason = "rate-limit"
          /\ ~isAvailable(id)

(* C19: every call that changed the status of a backend (a mark call, or   *)
(* an init that swept an entry) emits, once the new record is stored and   *)
(* saved, exactly one status:changed event carrying the backend id, the    *)
(* stored record and the type of the transition.                           *)
C19_TransitionEmitsEvent ==
    [][\A c \in 1..Len(calls) :
          (calls[c].phase = "resume" /\ calls'[c].phase = "done") =>
              /\ events'.n = events.n + 1
              /\ events'.last # None
              /\ IF calls[c].op = "init"
                 THEN Get(events'.last).type = "recovered"
                 ELSE /\ Get(events'.last).providerId = calls[c].id
                      /\ Get(events'.last).type = EventType(calls[c].op)
                      /\ Get(events'.last).status = heap'[statusCache'][calls[c].id]]_vars

(* C19, the case refuting it: a backend was marked and then recovered by   *)
(* the sweep of an init that has finished; one event was emitted in all,   *)
(* that of the mark                                                        *)
C19_SweepWithoutEvent ==
    /\ \A c \in 1..Len(calls) : calls[c].phase = "done"
    /\ events.n = 1
    /\ \E id \in Ids :
          /\ Cache[id] # None
          /\ Get(Cache[id]).available
          /\ Get(Cache[id]).failureCount = None
          /\ disk = Some(Cache)
          /\ Get(events.last).providerId = id
          /\ Get(events.last).type = "rate-limit"

(* The step is the call of markUsageLimit or markRateLimited on id *)
MarkCalled(id) ==
    /\ Len(calls') = Len(calls) + 1
    /\ calls'[Len(calls')].op \in {"markUsageLimit", "markRateLimited"}
    /\ calls'[Len(calls')].id = id

(* The step is the call of markAvailable on id *)
MarkAvailableCalled(id) ==
    /\ Len(calls') = Len(calls) + 1
    /\ calls'[Len(calls')].op = "markAvailable"
    /\ calls'[Len(calls')].id = id

(* The step is the sweep of an init that loaded an expired entry for id *)
SweptByInit(id) ==
    \E c \in 1..Len(calls) :
        /\ calls[c].phase \in {"nofile", "loaded"}
        /\ calls'[c].phase # calls[c].phase
        /\ Expired(calls[c].snap[id], now)

(* C20: the failure counter of a backend is the number of markUsageLimit   *)
(* and markRateLimited calls on it since its last reset: it is 0 for a     *)
(* backend never recorded, each mark adds exactly one, markAvailable and   *)
(* the recovery by the init sweep set it to 0, and nothing else changes it.*)
C20_FailureCounterCountsMarks ==
    [][\A id \in Ids :
          LET before == FailureCounter(heap[statusCache][id])
              after == FailureCounter(heap'[statusCache'][id])
          IN  IF MarkCalled(id) THEN after = before + 1
              ELSE IF MarkAvailableCalled(id) \/ SweptByInit(id) THEN after = 0
              ELSE after = before]_vars

(* C20, the case refuting it: no time has passed and no event was emitted, *)
(* so nothing was reset; two markRateLimited calls were made on backend    *)
(* "a", an init call between them has finished, and the counter is 1       *)
C20_TwoMarksCountedOnce ==
    /\ now = 0
    /\ events.n = 0
    /\ Len(calls) = 3
    /\ calls[1].op = "markRateLimited" /\ calls[1].id = "a"
    /\ calls[2].phase = "done"
    /\ calls[3].op = "markRateLimited" /\ calls[3].id = "a"
    /\ FailureCounter(Cache["a"]) = 1

(* The duration a wait-time string denotes: the sum of its components *)
RECURSIVE DurationMs(_)
DurationMs(w) ==
    IF w = <<>> THEN 0 ELSE w[1][1] * UnitMs(w[1][2]) + DurationMs(Tail(w))

(* estimatedRecovery - unavailableSince of an unavailable record *)
WaitOf(rec) == Get(rec.estimatedRecovery) - Get(rec.unavailableSince)

(* C21: a record stored by markUsageLimit has estimatedRecovery -          *)
(* unavailableSince equal to the duration of its waitTime when a waitTime  *)
(* with time components was given, and to the configured default           *)
(* usage-limit wait when none was given; one stored by markRateLimited has *)
(* the configured rate-limit wait.                                         *)
C21_RecoveryAfterWait ==
    \A id \in Ids :
        Cache[id] # None =>
            LET rec == Get(Cache[id])
            IN  /\ (rec.reason = "usage-limit" /\ rec.waitTime = None) =>
                      WaitOf(rec) = DefaultUsageLimitWait
                /\ (rec.reason = "usage-limit" /\ rec.waitTime # None
                                               /\ Get(rec.waitTime) # <<>>) =>
                      WaitOf(rec) = DurationMs(Get(rec.waitTime))
                /\ rec.reason = "rate-limit" => WaitOf(rec) = DefaultRateLimitWait

(* C21, the case refuting it: a usage limit marked with the wait time      *)
(* "0 minutes" is estimated to recover after the default wait              *)
C21_ZeroWaitGetsDefault ==
    /\ Cache["a"] # None
    /\ Get(Cache["a"]).reason = "usage-limit"
    /\ Get(Cache["a"]).waitTime = Some(<< <<0, "minute">> >>)
    /\ WaitOf(Get(Cache["a"])) = DefaultUsageLimitWait

(* C21, the part that holds: as above for wait times of a positive duration *)
C21_PositiveWaits ==
    \A id \in Ids :
        Cache[id] # None =>
            LET rec == Get(Cache[id])
            IN  /\ (rec.reason = "usage-limit" /\ rec.waitTime = None) =>
                      WaitOf(rec) = DefaultUsageLimitWait
                /\ (rec.reason = "usage-limit" /\ rec.waitTime # None
                                               /\ DurationMs(Get(rec.waitTime)) > 0) =>
                      WaitOf(rec) = DurationMs(Get(rec.waitTime))
                /\ rec.reason = "rate-limit" => WaitOf(rec) = DefaultRateLimitWait

(* The reason a mark operation stores *)
ReasonOf(op) ==
    CASE op = "markUsageLimit" -> "usage-limit"
      [] op = "markRateLimited" -> "rate-limit"
      [] op = "markAvailable" -> "ok"

(* C22: when the write of the status file fails during a mark call, the    *)
(* call throws, the in-memory status of the backend is the new record      *)
(* (getStatus and isAvailable reflect it), and the file keeps its previous *)
(* content; the file changes only by a write that succeeds, which stores   *)
(* the in-memory map.                                                      *)
C22_FailedWriteKeepsMemory ==
    [][
        /\ \A c \in 1..Len(calls) :
              (calls[c].phase \in {"mkdir", "write"} /\ calls'[c].phase = "failed") =>
                  LET id == calls[c].id
                      after == heap'[statusCache']
                  IN  /\ after[id] # None
                      /\ StatusIn(after, id, now').reason = ReasonOf(calls[c].op)
                      /\ AvailableIn(after, id) = (calls[c].op = "markAvailable")
                      /\ after = heap[statusCache]
                      /\ disk' = disk
        /\ disk' # disk =>
              /\ \E k \in 1..Len(calls) :
                    calls[k].phase = "write" /\ calls'[k].phase = "resume"
              /\ disk' = Some(heap[statusCache])
    ]_vars

(* C22, its case: a mark call on "a" failed to save; the cache holds the   *)
(* record marking "a" unavailable and the file does not                    *)
C22_MemoryAheadOfDisk ==
    /\ \E c \in 1..Len(calls) : calls[c].phase = "failed"
    /\ \A c \in 1..Len(calls) : calls[c].phase \in {"done", "failed"}
    /\ ~isAvailable("a")
    /\ disk # None
    /\ Get(disk)["a"] # None
    /\ Get(Get(disk)["a"]).available

(* C23: getStatus(id) always returns a record; for an id without a stored  *)
(* record it is the available record with reason 'ok', and the call adds   *)
(* no entry to the status map; isAvailable(id) is the available flag of    *)
(* getStatus(id).                                                          *)
C23_GetStatusNeverNull ==
    [][
        /\ \A id \in Ids :
              /\ getStatus(id).available \in BOOLEAN
              /\ Cache[id] = None =>
                    /\ getStatus(id).available
                    /\ getStatus(id).reason = "ok"
              /\ isAvailable(id) = getStatus(id).available
        /\ (query' # query /\ query' # None) =>
              LET q == Get(query')
              IN  /\ heap' = heap
                  /\ statusCache' = statusCache
                  /\ disk' = disk
                  /\ q.op = "getStatus" => q.result = getStatus(q.id)
                  /\ q.op = "isAvailable" => q.result = getStatus(q.id).available
    ]_vars

(* C23, its case: getStatus was called for an id that has no record, the   *)
(* result is the available record, and the id still has no record          *)
C23_UnknownIdSynthesized ==
    /\ query # None
    /\ Get(query).op = "getStatus"
    /\ Get(query).id = "b"
    /\ Get(query).result.available
    /\ Get(query).result.reason = "ok"
    /\ Cache["b"] = None
    /\ Cache["a"] # None

(* The time a phrase of formatTimeRemaining stands for, in ms *)
PhraseMs(phrase) ==
    phrase.days * UnitMs("day") + phrase.hours * UnitMs("hour")
        + phrase.minutes * UnitMs("minute")

(* C24: getTimeUntilRecovery(id) is null when the backend is available or  *)
(* has no estimatedRecovery; otherwise it is a phrase for estimatedRecovery*)
(* - now: 'any moment' once the recovery time is reached or passed, else   *)
(* the remaining days, hours and minutes (to the minute); one hour into a  *)
(* two-hour wait the phrase is one hour.                                   *)
C24_TimeUntilRecovery ==
    \A id \in Ids :
        LET status == getStatus(id)
            result == getTimeUntilRecovery(id)
        IN  IF status.available \/ status.estimatedRecovery = None
            THEN result = None
            ELSE LET remaining == Get(status.estimatedRecovery) - now
                 IN  /\ result # None
                     /\ remaining <= 0 <=> Get(result).text = "any moment"
                     /\ remaining > 0 =>
                           /\ PhraseMs(Get(result)) <= remaining
                           /\ remaining < PhraseMs(Get(result)) + UnitMs("minute")
                           /\ Get(result).text = "< 1m" <=> PhraseMs(Get(result)) = 0
                     /\ remaining = UnitMs("hour") =>
                           Get(result) = [ text |-> "parts", days |-> 0, hours |-> 1,
                                           minutes |-> 0 ]

(* C24, its case: the backend was marked with the wait time "2 hours", an  *)
(* hour has passed, and getTimeUntilRecovery answered one hour             *)
C24_OneHourLeft ==
    /\ query # None
    /\ Get(query).op = "getTimeUntilRecovery"
    /\ Get(query).id = "a"
    /\ Cache["a"] # None
    /\ Get(Cache["a"]).waitTime = Some(<< <<2, "hour">> >>)
    /\ Get(Cache["a"]).unavailableSince = Some(0)
    /\ now = UnitMs("hour")
    /\ Get(query).result = Some([ text |-> "parts", days |-> 0, hours |-> 1,
                                  minutes |-> 0 ])

(* C24: after the recovery time the answer is 'any moment' *)
C24_AnyMoment ==
    /\ query # None
    /\ Get(query).op = "getTimeUntilRecovery"
    /\ Cache["a"] # None
    /\ Get(Cache["a"]).estimatedRecovery # None
    /\ Get(Get(Cache["a"]).estimatedRecovery) < now
    /\ Get(query).id = "a"
    /\ Get(query).result # None
    /\ Get(Get(query).result).text = "any moment"

(* The arguments and result of the analyzeError call made, if any *)
AnalyzeErrorCalled == query # None /\ Get(query).op = "analyzeError"

AnalyzeHttpErrorCalled == query # None /\ Get(query).op = "analyzeHttpError"

(* C25: a successful outcome is classified as no error whatever the text:  *)
(* analyzeError(text, 0) has hasError = false for every text, and          *)
(* analyzeHttpError with a 2xx status has hasError = false for every body. *)
C25_SuccessIsNoError ==
    /\ (AnalyzeErrorCalled /\ Get(query).exitCode = Some(0)) =>
            ~Get(query).result.hasError
    /\ (AnalyzeHttpErrorCalled /\ Get(query).status \in 200..299) =>
            ~Get(query).result.hasError

(* C25, the case refuting it: the output of a process that exited with     *)
(* code 0 mentions SIGTERM and is classified as a timeout error            *)
C25_SuccessClassifiedAsError ==
    /\ AnalyzeErrorCalled
    /\ Get(query).exitCode = Some(0)
    /\ Get(query).text = << "SIGTERM" >>
    /\ Get(query).result.hasError
    /\ Get(query).result.category = Some(CAT_TIMEOUT)

(* C25, the HTTP half: a 2xx status is no error whatever the body *)
C25_HttpSuccessIsNoError ==
    (AnalyzeHttpErrorCalled /\ Get(query).status \in 200..299) =>
        Get(query).result = NoError

(* No rule's pattern matches the text *)
NoRuleMatches(text) ==
    \A i \in 1..Len(ERROR_PATTERNS) : ~PatternTest(ERROR_PATTERNS[i], text)

(* C26: when no rule matches the text, analyzeError returns category       *)
(* 'unknown' with hasError = true if the exit code is non-zero and not     *)
(* null, and the no-error classification otherwise; this includes the      *)
(* absent or empty text.                                                   *)
C26_UnmatchedText ==
    (AnalyzeErrorCalled /\ NoRuleMatches(Get(query).text)) =>
        IF Get(query).exitCode \notin {None, Some(0)}
        THEN /\ Get(query).result.hasError
             /\ Get(query).result.category = Some(CAT_UNKNOWN)
             /\ Get(query).result.message # None
             /\ Get(Get(query).result.message) # ""
        ELSE Get(query).result = NoError

(* C26, its case: an unrecognized text with exit code 1 is 'unknown', and  *)
(* so is the empty text                                                    *)
C26_UnknownWithExitCode ==
    /\ AnalyzeErrorCalled
    /\ Get(query).text = <<>>
    /\ Get(query).exitCode = Some(1)
    /\ Get(query).result.category = Some(CAT_UNKNOWN)
    /\ Get(query).result.message = Some("Process exited with code")

(* The order of the rules, by category *)
RuleOrder ==
    << CAT_QUOTA_EXCEEDED, CAT_RATE_LIMIT, CAT_USAGE_LIMIT, CAT_AUTH_ERROR,
       CAT_MODEL_NOT_FOUND, CAT_NETWORK_ERROR, CAT_TIMEOUT >>

(* The rule of a category *)
RuleOf(category) ==
    ERROR_PATTERNS[CHOOSE i \in 1..Len(ERROR_PATTERNS) :
                       ERROR_PATTERNS[i].category = category]

(* C27: analyzeError returns the outcome of the first rule, in the order   *)
(* quota-exceeded, rate-limit, usage-limit, auth-error, model-not-found,   *)
(* network-error, timeout, whose pattern matches the text: the category,   *)
(* requiresFallback, actionable and remediation are those of that rule.    *)
C27_FirstRuleWins ==
    (AnalyzeErrorCalled /\ ~NoRuleMatches(Get(query).text)) =>
        \E k \in 1..Len(RuleOrder) :
            /\ PatternTest(RuleOf(RuleOrder[k]), Get(query).text)
            /\ \A j \in 1..(k - 1) : ~PatternTest(RuleOf(RuleOrder[j]), Get(query).text)
            /\ Get(query).result.hasError
            /\ Get(query).result.category = Some(RuleOrder[k])
            /\ Get(query).result.requiresFallback = RuleOf(RuleOrder[k]).requiresFallback
            /\ Get(query).result.actionable = RuleOf(RuleOrder[k]).actionable
            /\ Get(query).result.suggestedFix = Some(RuleOf(RuleOrder[k]).suggestedFix)

(* C27, its case: a text matching the auth-error, usage-limit and          *)
(* rate-limit rules is classified rate-limit                               *)
C27_SeveralRulesMatch ==
    /\ AnalyzeErrorCalled
    /\ Get(query).text = << "Invalid API key", "usage limit - rate limit exceeded" >>
    /\ Get(query).result.category = Some(CAT_RATE_LIMIT)
    /\ ~Get(query).result.requiresFallback

(* C28: analyzeHttpError classifies status 429 as rate-limit and 401/403   *)
(* as auth-error whatever the body; any other non-2xx status is classified *)
(* from the body with analyzeError when there is a body, and as 'unknown'  *)
(* when there is none.                                                     *)
C28_StatusBeforeBody ==
    AnalyzeHttpErrorCalled =>
        LET status == Get(query).status
            body == Get(query).text
            result == Get(query).result
        IN  /\ status = 429 =>
                  result.hasError /\ result.category = Some(CAT_RATE_LIMIT)
            /\ status \in {401, 403} =>
                  result.hasError /\ result.category = Some(CAT_AUTH_ERROR)
            /\ (status \notin (200..299) \cup {429, 401, 403} /\ body # <<>>) =>
                  result = analyzeError(body, None)
            /\ (status \notin (200..299) \cup {429, 401, 403} /\ body = <<>>) =>
                  result.hasError /\ result.category = Some(CAT_UNKNOWN)

(* C28, its case: a 429 response whose body speaks of an invalid API key   *)
(* is classified rate-limit                                                *)
C28_StatusOverridesBody ==
    /\ AnalyzeHttpErrorCalled
    /\ Get(query).status = 429
    /\ Get(query).text = << "Invalid API key" >>
    /\ Get(query).result.category = Some(CAT_RATE_LIMIT)

InExecution(r) ==
    /\ ~runs[r].stopped
    /\ \/ runs[r].pc \in {"running", "fetching", "streaming"}
       \/ runs[r].pc = "output" /\ runs[r].path = "ok"

(* C30: isRunActive(runId) follows the run's state: false for a run        *)
(* created and not yet executed, true while it is being executed, false    *)
(* once it was stopped or is terminal, and false when its completion       *)
(* callback has fired.                                                     *)
C30_ActiveTracksExecution ==
    \A r \in RunIds :
        /\ isRunActive(r) <=> InExecution(r)
        /\ runs[r].pc = "created" => ~isRunActive(r)
        /\ runs[r].stopped => ~isRunActive(r)
        /\ TerminalRecord(r) => ~isRunActive(r)
        /\ runs[r].completes > 0 => ~isRunActive(r)

(* C30, its case: one run has completed without being stopped, another is  *)
(* created and not executed; neither is active                             *)
C30_InactiveBeforeAndAfter ==
    \E r, q \in RunIds :
        /\ runs[r].completes > 0
        /\ ~runs[r].stopped
        /\ runs[r].path = "ok"
        /\ ~isRunActive(r)
        /\ runs[q].pc = "created"
        /\ ~isRunActive(q)

---------------------------------------------------------------------------
(* The providers stored in the file *)
StoredProviders == loadProviders(StoreFile).providers

(* Request k's loadProviders() returns in this step *)
LoadReturns(k) ==
    /\ k \in 1..Len(Requests)
    /\ Requests[k].phase = "load"
    /\ Get(query').requests[k].phase # "load"

(* C31: backend ids are unique and immutable.  A createProvider whose id   *)
(* is present in the store it loads throws 'Provider with this ID already  *)
(* exists', writes nothing and leaves the stored providers unchanged; a    *)
(* provider is always stored under its own id, and an updateProvider(id,   *)
(* updates) returns and stores a provider whose id is `id`, even when the  *)
(* updates carry another id.                                               *)
C31_IdsUniqueAndImmutable ==
    [][
        /\ \A k \in 1..Len(Requests) :
              /\ LoadReturns(k)
              /\ Requests[k].op = "createProvider"
              /\ StoredProviders[Requests[k].id] # None
              => /\ Get(query').requests[k].phase = "failed"
                 /\ Get(query').requests[k].error =
                        Some("Provider with this ID already exists")
                 /\ Get(query').requests[k].data = None
                 /\ Get(query').file = StoreFile
        /\ \A k \in 1..Len(Requests) :
              /\ LoadReturns(k)
              /\ Requests[k].op = "updateProvider"
              /\ StoredProviders[Requests[k].id] # None
              => /\ Get(Get(query').requests[k].result).id = Requests[k].id
                 /\ Get(Get(Get(query').requests[k].data).providers[Requests[k].id]).id =
                        Requests[k].id
                 /\ \A i \in StoreIds \ {Requests[k].id} :
                        Get(Get(query').requests[k].data).providers[i] =
                            StoredProviders[i]
        /\ \A i \in StoreIds :
              LET stored == loadProviders(Get(query').file).providers[i]
              IN  stored # None => Get(stored).id = i
    ]_vars

(* C31 witness: a createProvider of a stored id has failed, and an         *)
(* updateProvider carrying another id has been saved, the provider still   *)
(* under its own id.                                                       *)
C31_DuplicateRefusedIdKept ==
    /\ query # None
    /\ \E k, u \in 1..Len(Requests) :
          /\ Requests[k].op = "createProvider"
          /\ Requests[k].phase = "failed"
          /\ Requests[u].op = "updateProvider"
          /\ Requests[u].phase = "done"
          /\ Requests[u].arg.id # None
          /\ Requests[u].arg.id # Some(Requests[u].id)
          /\ Requests[u].arg.enabled = Some(FALSE)
          /\ StoredProviders[Requests[u].id] # None
          /\ Get(StoredProviders[Requests[u].id]).id = Requests[u].id
          /\ ~Get(StoredProviders[Requests[u].id]).enabled

---------------------------------------------------------------------------
(* parseWaitTime / formatTimeRemaining has been called *)
ParseWaitTimeCalled ==
    query # None /\ Get(query).fn = "parseWaitTime" /\ Get(query).called

FormatTimeRemainingCalled ==
    query # None /\ Get(query).fn = "formatTimeRemaining" /\ Get(query).called

(* The components of a wait-time string, other text left out *)
ComponentsOf(w) == SelectSeq(w, LAMBDA c : c[2] \in Units)

(* C32: parseWaitTime returns null for a null input and for a text with    *)
(* no component, and otherwise the sum of the components found, in         *)
(* milliseconds: d*86400000 + h*3600000 + m*60000 + s*1000.                *)
C32_ParseWaitTimeSums ==
    ParseWaitTimeCalled =>
        LET arg == Get(query).arg
            result == Get(query).result
        IN  IF arg = None \/ ComponentsOf(Get(arg)) = <<>>
            THEN result = None
            ELSE result = Some(DurationMs(ComponentsOf(Get(arg))))

(* C32 witness: components were found, all of them zero ("0 minutes"), and *)
(* the result is null instead of 0                                         *)
C32_ZeroComponentsGiveNull ==
    /\ ParseWaitTimeCalled
    /\ Get(query).arg = Some(<< <<0, "minute">> >>)
    /\ Get(query).result = None

(* C32, for texts whose components do not sum to zero, and for those with  *)
(* no component: the result is the sum, or null                            *)
C32_NonZeroSums ==
    ParseWaitTimeCalled =>
        LET arg == Get(query).arg
            result == Get(query).result
        IN  /\ arg = None \/ ComponentsOf(Get(arg)) = <<>> => result = None
            /\ arg # None /\ DurationMs(ComponentsOf(Get(arg))) > 0
               => result = Some(DurationMs(ComponentsOf(Get(arg))))

---------------------------------------------------------------------------
(* C33: formatTimeRemaining(ms) is 'any moment' for every ms <= 0, '< 1m'  *)
(* for 0 < ms < 60000, and otherwise the day, hour and minute components   *)
(* (the zero ones left out, at least one not zero) with                    *)
(* D*86400000 + H*3600000 + M*60000 <= ms < that sum + 60000.              *)
C33_FormatTimeRemaining ==
    FormatTimeRemainingCalled =>
        LET ms == Get(query).arg
            result == Get(Get(query).result)
        IN  /\ ms <= 0 => result.text = "any moment"
            /\ 0 < ms /\ ms < 60000 => result.text = "< 1m"
            /\ ms >= 60000 =>
                  /\ result.text = "parts"
                  /\ result.days >= 0 /\ result.hours >= 0 /\ result.minutes >= 0
                  /\ result.days + result.hours + result.minutes > 0
                  /\ PhraseMs(result) <= ms
                  /\ ms < PhraseMs(result) + 60000

(* C33 witness: formatTimeRemaining(9000000) is '2h 30m', and             *)
(* formatTimeRemaining of a day and 59999 ms more is '1d'                  *)
C33_TwoAndAHalfHours ==
    /\ FormatTimeRemainingCalled
    /\ \/ /\ Get(query).arg = 9000000
          /\ Get(query).result =
                Some([ text |-> "parts", days |-> 0, hours |-> 2, minutes |-> 30 ])
       \/ /\ Get(query).arg = 86400000 + 59999
          /\ Get(query).result =
                Some([ text |-> "parts", days |-> 1, hours |-> 0, minutes |-> 0 ])

---------------------------------------------------------------------------
(* Every call made has returned *)
AllDone == \A c \in 1..Len(calls) : calls[c].phase = "done"

(* The record of id in the status file *)
OnDisk(id) == IF disk = None THEN None ELSE Get(disk)[id]

(* C34: once all concurrent mark calls and their file writes have          *)
(* finished, the status file holds, for every backend id a call was made   *)
(* on, the record the in-memory map holds for it, which is the record of   *)
(* the last call on that id.                                               *)
C34_LastWriterWins ==
    AllDone => \A id \in Ids : Cache[id] # None => OnDisk(id) = Cache[id]

(* C34 witness: all calls have returned, backend "b" was marked, and the   *)
(* status file has no record of "b"                                        *)
C34_UpdateLostOnDisk ==
    /\ Len(calls) > 0
    /\ AllDone
    /\ Cache["b"] # None
    /\ disk # None
    /\ OnDisk("b") = None

(* C34, the in-memory half: a mark call puts its record in the map at      *)
(* once, and nothing else changes the map while only mark calls run        *)
C34_MemoryHoldsLastRecord ==
    [][\A id \in Ids :
          IF \E op \in {"markUsageLimit", "markRateLimited", "markAvailable"} :
                /\ Len(calls') = Len(calls) + 1
                /\ calls'[Len(calls')].op = op
                /\ calls'[Len(calls')].id = id
          THEN /\ Cache'[id] # None
               /\ Get(Cache'[id]).reason = ReasonOf(calls'[Len(calls')].op)
               /\ Get(Cache'[id]).lastChecked = now
          ELSE Cache'[id] = Cache[id]]_vars

---------------------------------------------------------------------------
(* C35: a status change made by a mark call while init() calls are in      *)
(* flight is not lost.  When every call has returned, the in-memory map    *)
(* holds, for the backend of the mark call that returned last, the record  *)
(* of that call or a later one.                                            *)
C35_MarkDuringInitKept ==
    AllDone /\ events.n >= 1 =>
        LET changed == Get(events.last)
        IN  /\ Cache[changed.providerId] # None
            /\ Get(Cache[changed.providerId]).lastChecked
                   >= Get(changed.status).lastChecked

(* C35 witness: a mark call on "b" has written the file; init() was        *)
(* called and read it; markUsageLimit("a") was called and returned while   *)
(* that init was in flight; all three have returned and the in-memory map  *)
(* is the one init loaded, with "b" and without "a"                        *)
C35_MarkLostAfterInit ==
    /\ now = 0
    /\ Len(calls) = 3
    /\ AllDone
    /\ events.n = 2
    /\ Get(events.last).providerId = "a"
    /\ Get(events.last).type = "usage-limit"
    /\ Cache["b"] # None
    /\ Cache["a"] = None
    /\ OnDisk("a") = Get(events.last).status

---------------------------------------------------------------------------
(* C36: getFallbackProvider never returns the primary backend as its own   *)
(* fallback, whatever the configuration and the status records.            *)
C36_NeverThePrimary ==
    (query # None /\ Get(query).called /\ Get(query).result # None) =>
        Get(Get(query).result).provider.id # Get(query).primaryProviderId

(* C36 witness: the primary's configured fallback is its own id, the       *)
(* primary is enabled and available, and the call returned the primary     *)
(* from the 'provider' tier                                                *)
C36_PrimaryIsItsOwnFallback ==
    /\ query # None
    /\ Get(query).called
    /\ ConfiguredGiven
    /\ ConfiguredId = Get(query).primaryProviderId
    /\ Get(query).result # None
    /\ Get(Get(query).result).source = "provider"
    /\ Get(Get(query).result).provider.id = Get(query).primaryProviderId

(* C36, the other two tiers: a result from the task tier or the system     *)
(* tier is never the primary                                               *)
C36_TaskAndSystemSkipPrimary ==
    (/\ query # None
     /\ Get(query).called
     /\ Get(query).result # None
     /\ Get(Get(query).result).source \in {"task", "system"}) =>
        Get(Get(query).result).provider.id # Get(query).primaryProviderId

---------------------------------------------------------------------------
(* The step is the synchronous part of a call of `op` on id *)
Marked(op, id) ==
    /\ Len(calls') = Len(calls) + 1
    /\ calls'[Len(calls')].op = op
    /\ calls'[Len(calls')].id = id


(* C37: a markUsageLimit or markRateLimited call replaces the backend's    *)
(* record as a whole.  Whatever the previous record, the new one is        *)
(* unavailable since now with the reason of the call, its message and      *)
(* waitTime are those of the call (or the defaults), its estimatedRecovery *)
(* is now + the wait of the call, and its failure counter is the previous  *)
(* counter + 1.                                                            *)
C37_MarkReplacesRecord ==
    [][\A id \in Ids :
          /\ Marked("markUsageLimit", id) =>
                /\ Cache'[id] # None
                /\ \E errorInfo \in ErrorInfos \cup
                        { [ message |-> None, waitTime |-> Some(w) ] : w \in WaitTimes } :
                      Get(Cache'[id]) =
                        [ available |-> FALSE,
                          reason |-> "usage-limit",
                          message |-> OrElse(errorInfo.message, "Usage limit exceeded"),
                          waitTime |-> errorInfo.waitTime,
                          unavailableSince |-> Some(now),
                          estimatedRecovery |->
                              Some(now + IF errorInfo.waitTime # None
                                            /\ DurationMs(Get(errorInfo.waitTime)) > 0
                                         THEN DurationMs(Get(errorInfo.waitTime))
                                         ELSE DefaultUsageLimitWait),
                          failureCount |-> Some(FailureCounter(Cache[id]) + 1),
                          lastChecked |-> now ]
          /\ Marked("markRateLimited", id) =>
                Cache'[id] =
                    Some([ available |-> FALSE,
                           reason |-> "rate-limit",
                           message |-> "Rate limit exceeded - temporary",
                           waitTime |-> None,
                           unavailableSince |-> Some(now),
                           estimatedRecovery |-> Some(now + DefaultRateLimitWait),
                           failureCount |-> Some(FailureCounter(Cache[id]) + 1),
                           lastChecked |-> now ])]_vars

(* C37 witness: backend "a" was usage-limited at 0 until 2000 (the event   *)
(* of that call), then rate-limited at 1000: its record is the rate-limit  *)
(* one, recovering at 1000 + the rate-limit wait, with failure counter 2   *)
C37_RateLimitShortensRecovery ==
    /\ events.last # None
    /\ Get(events.last).providerId = "a"
    /\ Get(events.last).type = "usage-limit"
    /\ Get(Get(events.last).status).estimatedRecovery = Some(2000)
    /\ now = 1000
    /\ Cache["a"] # None
    /\ Get(Cache["a"]).reason = "rate-limit"
    /\ Get(Cache["a"]).unavailableSince = Some(1000)
    /\ Get(Cache["a"]).estimatedRecovery = Some(1000 + DefaultRateLimitWait)
    /\ Get(Cache["a"]).failureCount = Some(2)

---------------------------------------------------------------------------
(* The mark call awaited by the failure handler of run r has thrown *)
MarkFailed(r) ==
    /\ r \in RunIds
    /\ runs[r].call # 0
    /\ calls[runs[r].call].phase = "failed"

(* C38: when the mark call made for a rate-limit or usage-limit failure of *)
(* a run throws, the handler goes on: it writes the terminal record, with  *)
(* the classification, once, calls the failure hook and, the hook          *)
(* returning, the completion callback; and the run is eventually           *)
(* finalized.                                                              *)
C38_MarkFailureStillFinalizes ==
    /\ [][\A r \in RunIds :
             /\ (MarkFailed(r) /\ runs[r].pc = "mark" /\ runs'[r].pc # "mark") =>
                   /\ runs'[r].pc = "write"
                   /\ LimitFailure(runs'[r].local)
             /\ (MarkFailed(r) /\ runs[r].pc = "write" /\ runs'[r].pc # "write") =>
                   /\ runs'[r].meta = runs[r].local
                   /\ LimitFailure(runs'[r].meta)
                   /\ runs'[r].meta.errorAnalysis # None
                   /\ runs'[r].meta.endTime # None
                   /\ runs'[r].writes = runs[r].writes + 1
                   /\ hooks'.onRunFailed = hooks.onRunFailed + 1
                   /\ runs'[r].pc = "done" =>
                         runs'[r].completes = runs[r].completes + 1]_vars
    /\ \A r \in 1..MaxRuns :
          (MarkFailed(r) /\ runs[r].pc = "mark") ~> Finalized(r)

(* C38 witness: the mark call of a run's failure handler threw, and the    *)
(* run is finalized as a limit failure, its hook and callback called       *)
C38_FinalizedAfterMarkFailure ==
    \E r \in RunIds :
        /\ MarkFailed(r)
        /\ runs[r].pc = "done"
        /\ Finalized(r)
        /\ LimitFailure(runs[r].meta)
        /\ runs[r].writes = 1
        /\ runs[r].completes = 1
        /\ hooks.onRunFailed >= 1

---------------------------------------------------------------------------
(* The categories for which a fallback backend is required *)
FallbackCategories ==
    { CAT_USAGE_LIMIT, CAT_QUOTA_EXCEEDED, CAT_AUTH_ERROR, CAT_MODEL_NOT_FOUND }

(* C39: every classification analyzeError or analyzeHttpError returns is   *)
(* consistent: without an error it has no category, no waitTime and        *)
(* requiresFallback false; with an error its category is one of the eight  *)
(* defined ones and requiresFallback is true exactly for usage-limit,      *)
(* quota-exceeded, auth-error and model-not-found.                         *)
C39_ClassificationConsistent ==
    (AnalyzeErrorCalled \/ AnalyzeHttpErrorCalled) =>
        LET result == Get(query).result
        IN  /\ ~result.hasError =>
                  /\ result.category = None
                  /\ result.waitTime = None
                  /\ ~result.requiresFallback
            /\ result.hasError =>
                  /\ result.category # None
                  /\ Get(result.category) \in ERROR_CATEGORIES
                  /\ result.requiresFallback <=>
                        Get(result.category) \in FallbackCategories

(* C39 witness: a failed process whose output has the 429 text is          *)
(* classified rate-limit without fallback, and a response with status 401  *)
(* auth-error with fallback                                                *)
C39_RateLimitWithoutFallback ==
    \/ /\ AnalyzeErrorCalled
       /\ Get(query).text = << "API Error: 429 Too Many Requests" >>
       /\ Get(query).exitCode = Some(1)
       /\ Get(query).result.hasError
       /\ Get(query).result.category = Some(CAT_RATE_LIMIT)
       /\ ~Get(query).result.requiresFallback
    \/ /\ AnalyzeHttpErrorCalled
       /\ Get(query).status = 401
       /\ Get(query).result.category = Some(CAT_AUTH_ERROR)
       /\ Get(query).result.requiresFallback

(* C40: a classification has a waitTime only where wait-time extraction    *)
(* is invoked: one returned by analyzeError only if its category is        *)
(* usage-limit, one returned by analyzeHttpError only if its category is   *)
(* usage-limit or the status is 429.                                       *)
C40_WaitTimeOnlyWhereExtracted ==
    /\ AnalyzeErrorCalled =>
          (Get(query).result.waitTime # None =>
              Get(query).result.category = Some(CAT_USAGE_LIMIT))
    /\ AnalyzeHttpErrorCalled =>
          (Get(query).result.waitTime # None =>
              \/ Get(query).result.category = Some(CAT_USAGE_LIMIT)
              \/ Get(query).status = 429)

(* C40 witness: the same wait phrase is extracted next to a usage-limit    *)
(* text                                                                    *)
C40_UsageLimitWithWaitTime ==
    /\ AnalyzeErrorCalled
    /\ Get(query).text = << "You've hit your usage limit", "try again in 2 seconds" >>
    /\ Get(query).result.category = Some(CAT_USAGE_LIMIT)
    /\ Get(query).result.waitTime = Some(<< <<2, "second">> >>)

(* C40: next to a rate-limit text the wait phrase is not extracted by      *)
(* analyzeError, and it is extracted from the body of a 429 response       *)
C40_WaitPhraseElsewhere ==
    /\ (/\ AnalyzeErrorCalled
        /\ Get(query).text = << "API Error: 429 Too Many Requests",
                                "try again in 2 seconds" >>)
       => Get(query).result.waitTime = None
    /\ (/\ AnalyzeHttpErrorCalled
        /\ Get(query).status = 429
        /\ Get(query).text = << "hello", "try again in 2 seconds" >>)
       => Get(query).result.waitTime = Some(<< <<2, "second">> >>)

====
